---------------------------- MODULE Spec2Model ----------------------------
(***************************************************************************)
(* A model of 44ripd: the RIPv2 listener that keeps a graph of IPENCAP     *)
(* tunnels and routes in step with the kernel (src/main.c) through the     *)
(* FreeBSD adapter (src/freebsd/sys.c).                                    *)
(*                                                                         *)
(* IPv4 addresses and masks are 4-tuples of octets, most significant       *)
(* first, so that the 32-bit operations of the code (and, compare) are     *)
(* computed on the full width.  Tunnel structures live in numbered heap    *)
(* slots; a Tunnel pointer is a slot number and NULL is 0.  A Route is     *)
(* identified by its key <<ipnet, cidr>> in the routes map.                *)
(***************************************************************************)
EXTENDS Integers, Sequences, FiniteSets, TLC

VARIABLES
    pc,            \* position of the single thread of control
    acceptable,    \* acceptableroutes: IPMap of ACCEPT / IGNORE
    staticifs,     \* staticinterfaces bitvec
    interfaces,    \* interfaces bitvec
    tunnels,       \* tunnels IPMap: <<outer_remote, 32>> -> heap slot
    heap,          \* heap slot -> Tunnel structure (or a freed block)
    stale,         \* heap slot -> the bytes free() left in a freed block
    routes,        \* routes IPMap: <<ipnet, cidr>> -> Route structure
    kifs,          \* kernel: gif interfaces, by interface number
    kroutes,       \* kernel: routes of the routing domain
    clock,         \* the last value time(NULL) returned
    now,           \* riptide's local `now`
    todo,          \* responses of the current packet not yet processed
    difs,          \* discovery: interface addresses not yet reported
    drts,          \* discovery: kernel routes not yet reported
    deleting,      \* walkexpired: the routes noted for removal
    universe,      \* the responses the peers of this run send
    last,          \* what the last step did (observation only)
    root,          \* testipmapfind: the IPMap under test
    inserted,      \* testipmapfind: the entries put into root, in order
    answer         \* testipmapfind: the last IPMap call and what it gave

vars == <<pc, acceptable, staticifs, interfaces, tunnels, heap, stale, routes,
          kifs, kroutes, clock, now, todo, difs, drts, deleting, universe, last,
          root, inserted, answer>>

-----------------------------------------------------------------------------
(* Bounds of the model.                                                    *)

MaxTunnels == 2      \* Tunnel structures alive before calloc gives NULL
MaxStale == 2        \* freed Tunnel blocks that routes can still point to
MaxResponses == 2    \* responses carried by one packet
MaxTicks == 1        \* clock advances observed

(* Program constants.                                                      *)

CIDR_HOST == 32
TIMEOUT == 604800

NULL == 0
ACCEPT == "ACCEPT"
IGNORE == "IGNORE"

Tick == TIMEOUT
Slots == 1..(MaxTunnels + MaxStale)

-----------------------------------------------------------------------------
(* 32-bit words as octet tuples.                                           *)

ZeroAddr == <<0, 0, 0, 0>>
hostmask == <<255, 255, 255, 255>>

RECURSIVE BitAnd(_, _)
BitAnd(a, b) ==
    IF a = 0 \/ b = 0 THEN 0
    ELSE IF b = 255 THEN a
    ELSE IF a = 255 THEN b
    ELSE (a % 2) * (b % 2) + 2 * BitAnd(a \div 2, b \div 2)

AddrAnd(a, m) == [i \in 1..4 |-> BitAnd(a[i], m[i])]

AddrLess(a, b) ==
    \E i \in 1..4 : a[i] < b[i] /\ \A j \in 1..(i - 1) : a[j] = b[j]

Pow2(n) == IF n = 0 THEN 1 ELSE IF n = 1 THEN 2 ELSE IF n = 2 THEN 4
           ELSE IF n = 3 THEN 8 ELSE IF n = 4 THEN 16 ELSE IF n = 5 THEN 32
           ELSE IF n = 6 THEN 64 ELSE IF n = 7 THEN 128 ELSE 256

(* The mask with `len` leading one bits.                                   *)
Masks ==
    [len \in 0..32 |->
        [i \in 1..4 |->
            LET ones == IF len >= 8 * i THEN 8
                        ELSE IF len <= 8 * (i - 1) THEN 0
                        ELSE len - 8 * (i - 1)
            IN  256 - Pow2(8 - ones)]]

cidr2mask(len) == Masks[len]

(* The length of every mask that has one.                                  *)
Cidrs ==
    [mask \in {Masks[len] : len \in 0..32} |->
        CHOOSE len \in 0..32 : Masks[len] = mask]

(* Number of leading one bits of a contiguous mask, -1 for any other mask. *)
netmask2cidr(mask) == IF mask \in DOMAIN Cidrs THEN Cidrs[mask] ELSE -1

-----------------------------------------------------------------------------
(* IPMap: the CIDR-keyed map.  A map is a function on keys <<prefix, len>>; *)
(* the bits of a key past its length do not take part.  A lookup returns   *)
(* the entry found (its key), NoEntry when there is none; the datum of an  *)
(* entry e of map m is m[e].  The entries of a map have lengths 0..32.     *)
(* The length a caller passes is a size_t: the -1 that netmask2cidr        *)
(* returns arrives as the largest size_t, is written -1 here, and is       *)
(* longer than every prefix length.  A lookup with such a length is        *)
(* answered from the entries there are; what an insert with such a length  *)
(* stores is not defined, and no operation below is applied to one.        *)

NoEntry == <<>>
EmptyMap == <<>>

(* No IPMap call of the test program has been made.                        *)
NoAnswer == [op |-> "none", key |-> <<0, 0, 0, 0>>, keylen |-> 0,
             result |-> <<>>]

LenLess(a, b) == IF a < 0 THEN FALSE ELSE b < 0 \/ a < b

ipkey(key, keylen) == <<AddrAnd(key, cidr2mask(keylen)), keylen>>

(* A find that settles for the longest stored prefix of the query.        *)
ipmapfind_prefix(map, key, keylen) ==
    LET lens == {l \in 0..32 : l <= keylen /\ ipkey(key, l) \in DOMAIN map}
    IN  IF lens = {} THEN NoEntry
        ELSE ipkey(key, CHOOSE l \in lens : \A o \in lens : o <= l)

(* Exact match: no entry is longer than 32 bits, so a longer length is the *)
(* length of none.                                                         *)
ipmapfind(map, key, keylen) ==
    IF keylen \in 0..32 /\ ipkey(key, keylen) \in DOMAIN map
    THEN ipkey(key, keylen) ELSE NoEntry

(* A nearest that returns the shortest stored prefix of the query.        *)
ipmapnearest_shortest(map, key, keylen) ==
    LET lens == {l \in 0..32 : l <= keylen /\ ipkey(key, l) \in DOMAIN map}
    IN  IF lens = {} THEN NoEntry
        ELSE ipkey(key, CHOOSE l \in lens : \A o \in lens : l <= o)

ipmapnearest(map, key, keylen) ==
    LET lens == {l \in {e[2] : e \in DOMAIN map} \cap (0..32) :
                    ~LenLess(keylen, l) /\ ipkey(key, l) \in DOMAIN map}
    IN  IF lens = {} THEN NoEntry
        ELSE LET best == CHOOSE l \in lens : \A o \in lens : o <= l
             IN  ipkey(key, best)

(* Inserts when the key is absent; an entry already there stays.           *)
ipmapinsert(map, key, keylen, datum) ==
    LET k == ipkey(key, keylen)
    IN  IF k \in DOMAIN map THEN map
        ELSE [e \in DOMAIN map \cup {k} |-> IF e = k THEN datum ELSE map[e]]

ipmapremove(map, key, keylen) ==
    LET k == ipkey(key, keylen)
    IN  [e \in DOMAIN map \ {k} |-> map[e]]

(* Pre-order of the trie: a prefix before what it covers, the 0 branch     *)
(* before the 1 branch.                                                    *)
KeyBefore(k1, k2) ==
    \/ AddrLess(k1[1], k2[1])
    \/ k1[1] = k2[1] /\ LenLess(k1[2], k2[2])

RECURSIVE WalkOrder(_)
WalkOrder(keys) ==
    IF keys = {} THEN <<>>
    ELSE LET first == CHOOSE k \in keys :
                          \A o \in keys \ {k} : KeyBefore(k, o)
         IN  <<first>> \o WalkOrder(keys \ {first})

ipmapdo(map) == WalkOrder(DOMAIN map)

(* k1 covers k2: k1 is a prefix of k2.                                     *)
Covers(k1, k2) ==
    k1[2] <= k2[2] /\ AddrAnd(k2[1], cidr2mask(k1[2])) = k1[1]

RECURSIVE Perms(_)
Perms(keys) ==
    IF keys = {} THEN {<<>>}
    ELSE UNION {{<<k>> \o p : p \in Perms(keys \ {k})} : k \in keys}

(* The orders the guarantee of ipmapdotopdown allows: a prefix comes       *)
(* before everything it covers.                                            *)
TopDownOrders(keys) ==
    {o \in Perms(keys) :
        \A i, j \in 1..Len(o) : i < j => ~Covers(o[j], o[i])}

(* Bit i of an address, counted from the most significant bit, which is    *)
(* the bit the trie branches on at depth i.                                *)
Bit(addr, i) == (addr[(i \div 8) + 1] \div Pow2(7 - (i % 8))) % 2

(* The walk of the trie below the node at depth len, where `keys` are the  *)
(* entries under that node: they agree in their first len bits.  The left  *)
(* child holds the entries whose next bit is 0, the right child the        *)
(* others.                                                                 *)
RECURSIVE TopDown(_, _)
TopDown(keys, len) ==
    IF keys = {} THEN <<>>
    ELSE LET here == {k \in keys : k[2] = len}
             left == {k \in keys \ here : Bit(k[1], len) = 0}
             right == {k \in keys \ here : Bit(k[1], len) = 1}
         IN  (IF here = {} THEN <<>> ELSE <<CHOOSE k \in here : TRUE>>)
             \o TopDown(left, len + 1) \o TopDown(right, len + 1)

(* The same walk with the entry of a node after its children.              *)
RECURSIVE BottomUp(_, _)
BottomUp(keys, len) ==
    IF keys = {} THEN <<>>
    ELSE LET here == {k \in keys : k[2] = len}
             left == {k \in keys \ here : Bit(k[1], len) = 0}
             right == {k \in keys \ here : Bit(k[1], len) = 1}
         IN  BottomUp(left, len + 1) \o BottomUp(right, len + 1)
             \o (IF here = {} THEN <<>> ELSE <<CHOOSE k \in here : TRUE>>)

(* A walk that calls the function for a node after it has walked the       *)
(* children of the node.                                                   *)
ipmapdo_childrenfirst(map) == BottomUp(DOMAIN map, 0)

(* ipmapdotopdown: the pre-order walk of the trie.  The function is called *)
(* for the entry of a node, then the left child is walked, then the right. *)
ipmapdotopdown(map) == TopDown(DOMAIN map, 0)

-----------------------------------------------------------------------------
(* Bitvec.                                                                 *)

bitset(bits, i) == bits \cup {i}
bitclr(bits, i) == bits \ {i}
bitget(bits, i) == i \in bits
nextbit(bits) == CHOOSE i \in 0..Cardinality(bits) :
                     i \notin bits /\ \A j \in 0..(i - 1) : j \in bits

-----------------------------------------------------------------------------
(* The world the handlers act on: the daemon's globals and the kernel.     *)
(* st is "ok" while the process runs, "fatal" after fatal(), "crashed"     *)
(* after a failed assert or a fault on a freed Tunnel, and "unspecified"   *)
(* once the program has asked the IPMap to store a key longer than 32      *)
(* bits: what it does from there on is not followed.  Every operation      *)
(* below maps a world to a world and does nothing once st is not "ok".     *)

Fail(W, how) == IF W.st = "ok" THEN [W EXCEPT !.st = how] ELSE W

(* The graph as it is at one moment: the bits of interfaces, the keys of   *)
(* the tunnel index and of the routes map, and the routes list of every    *)
(* live tunnel.                                                            *)
Graph(W) ==
    [interfaces |-> W.interfaces, tunnels |-> DOMAIN W.tunnels,
     routes |-> DOMAIN W.routes,
     lists |-> [t \in DOMAIN W.heap |->
                  IF W.heap[t].live THEN W.heap[t].routes ELSE <<>>]]

(* The calls made on the kernel are logged in the order they are made,     *)
(* each with the graph at the moment of the call.                          *)
Log(W, event) ==
    [W EXCEPT !.log = Append(@, event), !.at = Append(@, Graph(W))]

FreedBlock == [live |-> FALSE]

(* A Tunnel read through a pointer that outlived free() is undefined       *)
(* behaviour.  What the read gives is decided by what the allocator did    *)
(* with the block, W.ub:                                                   *)
(*   "kept"       the bytes are as collapse left them;                     *)
(*   "scrambled"  the allocator wrote its own data over the addresses at   *)
(*                the head of the block, the rest is as it was;            *)
(*   "reused"     the block holds other data: no address matches and the   *)
(*                word of nref is positive;                                *)
(*   "poison"     the block is overwritten: no address matches, the word   *)
(*                of nref is negative and the routes pointer is wild;      *)
(*   "trap"       the read itself faults.                                  *)
UBViews == {"kept", "scrambled", "reused", "poison", "trap"}

(* An address that no tunnel and no route of the model has.                *)
GarbageAddr == <<165, 165, 165, 165>>

Scrambled(T, nref) ==
    [T EXCEPT !.outer_local = GarbageAddr, !.outer_remote = GarbageAddr,
              !.inner_local = GarbageAddr, !.inner_remote = GarbageAddr,
              !.nref = nref]

(* *tunnel: the structure of a live tunnel, what the block gives otherwise.*)
Deref(W, t) ==
    IF W.heap[t].live THEN W.heap[t]
    ELSE IF W.ub = "kept" THEN W.stale[t]
    ELSE IF W.ub = "scrambled" THEN Scrambled(W.stale[t], 0)
    ELSE IF W.ub = "reused" THEN Scrambled(W.stale[t], 1)
    ELSE Scrambled(W.stale[t], -1)

(* The read of a field of *tunnel faults.                                  *)
Traps(W, t) == ~W.heap[t].live /\ W.ub = "trap"

(* Following tunnel->routes faults.                                        *)
WildList(W, t) == ~W.heap[t].live /\ W.ub \in {"poison", "trap"}

RouteId(r) == <<r.ipnet, r.subnetmask>>
KeyOf(rid) == <<rid[1], netmask2cidr(rid[2])>>

mkroute(ipnet, subnetmask, gateway) ==
    [ipnet |-> ipnet, subnetmask |-> subnetmask, gateway |-> gateway,
     expires |-> 0, tunnel |-> NULL]

mktunnel(outer_local, outer_remote, inner_local, inner_remote) ==
    [live |-> TRUE, outer_local |-> outer_local, outer_remote |-> outer_remote,
     inner_local |-> inner_local, inner_remote |-> inner_remote,
     ifnum |-> 0, routes |-> <<>>, nref |-> 0]

RemoveAt(list, i) ==
    [j \in 1..(Len(list) - 1) |-> IF j < i THEN list[j] ELSE list[j + 1]]

(* The position unlinkroute's loop stops at: the first element with the    *)
(* route's ipnet and subnetmask, 0 when the loop runs off the list.        *)
FirstMatch(list, rid) ==
    LET hits == {i \in 1..Len(list) : list[i] = rid}
    IN  IF hits = {} THEN 0
        ELSE CHOOSE i \in hits : \A j \in hits : i <= j

(* unlinkroute that forgets --tunnel->nref.                                *)
UnlinkAtKeepingNref(W, t, rid, i) ==
    LET k == KeyOf(rid)
        W1 == [W EXCEPT !.heap[t].routes = RemoveAt(@, i)]
    IN  IF k \in DOMAIN W.routes
        THEN [W1 EXCEPT !.routes[k].gateway = ZeroAddr]
        ELSE W1

UnlinkAt(W, t, rid, i) ==
    LET k == KeyOf(rid)
        W1 == [W EXCEPT !.heap[t].routes = RemoveAt(@, i),
                        !.heap[t].nref = @ - 1]
    IN  IF k \in DOMAIN W.routes
        THEN [W1 EXCEPT !.routes[k].gateway = ZeroAddr]
        ELSE W1

unlinkroute(W, t, rid) ==
    IF W.st # "ok" \/ t = NULL THEN W
    ELSE IF WildList(W, t) THEN Fail(W, "crashed")
    ELSE IF FirstMatch(Deref(W, t).routes, rid) = 0 THEN W
    ELSE UnlinkAt(W, t, rid, FirstMatch(Deref(W, t).routes, rid))

linkroute(W, t, rid) ==
    IF W.st # "ok" THEN W
    ELSE [W EXCEPT !.heap[t].routes = <<rid>> \o @,
                   !.heap[t].nref = @ + 1,
                   !.routes[KeyOf(rid)].tunnel = t,
                   !.routes[KeyOf(rid)].gateway = W.heap[t].outer_remote]

-----------------------------------------------------------------------------
(* The kernel as the adapter sees it.  Configuring a tunnel's inner        *)
(* addresses installs the host route to inner_remote through it; deleting  *)
(* them removes every route through the interface.  A request the kernel   *)
(* refuses is fatal.                                                       *)

KRoute(ipnet, mask, ifnum) == [ipnet |-> ipnet, mask |-> mask, ifnum |-> ifnum]

KHas(W, ipnet, mask) ==
    \E kr \in W.kroutes : kr.ipnet = ipnet /\ kr.mask = mask

KConfigured(W, ifnum) ==
    ifnum \in DOMAIN W.kifs /\ W.kifs[ifnum].configured

tunnel_configure_inner(W, t, add) ==
    IF W.st # "ok" THEN W
    ELSE LET T == Deref(W, t)
         IN  IF T.ifnum \notin DOMAIN W.kifs THEN Fail(W, "fatal")
             ELSE IF add
             THEN [Log(W, <<"SIOCAIFADDR", T.ifnum, T.inner_remote>>)
                   EXCEPT !.kifs[T.ifnum].configured = TRUE,
                            !.kifs[T.ifnum].inner_local = T.inner_local,
                            !.kifs[T.ifnum].inner_remote = T.inner_remote,
                            !.kroutes = @ \cup
                                {KRoute(T.inner_remote, hostmask, T.ifnum)}]
             ELSE IF ~W.kifs[T.ifnum].configured THEN Fail(W, "fatal")
             ELSE [Log(W, <<"SIOCDIFADDR", T.ifnum>>)
                   EXCEPT !.kifs[T.ifnum].configured = FALSE,
                            !.kifs[T.ifnum].inner_local = ZeroAddr,
                            !.kifs[T.ifnum].inner_remote = ZeroAddr,
                            !.kroutes = {kr \in @ : kr.ifnum # T.ifnum}]

uptunnel(W, T) ==
    IF W.st # "ok" THEN W
    ELSE IF T.ifnum \in DOMAIN W.kifs THEN Fail(W, "fatal")
    ELSE [Log(W, <<"uptunnel", T.ifnum, T.inner_remote>>) EXCEPT
            !.kifs = [n \in DOMAIN @ \cup {T.ifnum} |->
                        IF n = T.ifnum
                        THEN [outer_local |-> T.outer_local,
                              outer_remote |-> T.outer_remote,
                              inner_local |-> T.inner_local,
                              inner_remote |-> T.inner_remote,
                              configured |-> TRUE]
                        ELSE @[n]],
            !.kroutes = @ \cup {KRoute(T.inner_remote, hostmask, T.ifnum)}]

downtunnel(W, T) ==
    IF W.st # "ok" THEN W
    ELSE IF T.ifnum \notin DOMAIN W.kifs THEN Fail(W, "fatal")
    ELSE [Log(W, <<"downtunnel", T.ifnum>>)
          EXCEPT !.kifs = [n \in DOMAIN @ \ {T.ifnum} |-> @[n]],
                   !.kroutes = {kr \in @ : kr.ifnum # T.ifnum}]

(* write(rtfd, RTM_ADD): refused when the route exists or the interface    *)
(* has no address to route through.                                        *)
RtmAdd(W, r, T) ==
    IF ~KConfigured(W, T.ifnum) \/ KHas(W, r.ipnet, r.subnetmask)
    THEN Fail(W, "fatal")
    ELSE [Log(W, <<"RTM_ADD", r.ipnet, r.subnetmask, T.ifnum>>)
          EXCEPT !.kroutes = @ \cup {KRoute(r.ipnet, r.subnetmask, T.ifnum)}]

addroute(W, r, t) ==
    IF W.st # "ok" THEN W
    ELSE IF r.subnetmask = hostmask /\ r.ipnet = W.heap[t].inner_remote THEN W
    ELSE RtmAdd(W, r, W.heap[t])

(* write(rtfd, RTM_DELETE): ESRCH is swallowed.                            *)
RtmDelete(W, r) ==
    [Log(W, <<"RTM_DELETE", r.ipnet, r.subnetmask>>) EXCEPT !.kroutes =
        {kr \in @ : ~(kr.ipnet = r.ipnet /\ kr.mask = r.subnetmask)}]

RECURSIVE AddOthers(_, _, _, _, _)
AddOthers(W, t, list, rid, newrt) ==
    IF list = <<>> THEN W
    ELSE LET other == Head(list)
             W1 == IF other # rid /\ other # newrt
                   THEN addroute(W, [ipnet |-> other[1], subnetmask |-> other[2]], t)
                   ELSE W
         IN  AddOthers(W1, t, Tail(list), rid, newrt)

(* The first route of the list that is not `route`, <<>> for NULL.         *)
NewBasis(list, rid) ==
    LET others == {i \in 1..Len(list) : list[i] # rid}
    IN  IF others = {} THEN <<>>
        ELSE list[CHOOSE i \in others : \A j \in others : i <= j]

RebaseOnto(W, t, rid, newrt) ==
    LET W1 == [W EXCEPT !.heap[t].inner_remote = newrt[1]]
        W2 == tunnel_configure_inner(W1, t, TRUE)
    IN  AddOthers(W2, t, W2.heap[t].routes, rid, newrt)

tunnel_rebase(W, t, r) ==
    LET W1 == tunnel_configure_inner(
                  Log(W, <<"tunnel_rebase", t, r.ipnet, r.subnetmask>>), t, FALSE)
    IN  IF W1.st # "ok" THEN W1
        ELSE IF Deref(W1, t).nref = 1 THEN W1
        ELSE IF NewBasis(Deref(W1, t).routes, RouteId(r)) = <<>>
        THEN Fail(W1, "crashed")
        ELSE RebaseOnto(W1, t, RouteId(r),
                        NewBasis(Deref(W1, t).routes, RouteId(r)))

rmroute(W, r) ==
    IF W.st # "ok" THEN W
    ELSE IF Traps(W, r.tunnel) THEN Fail(W, "crashed")
    ELSE IF Deref(W, r.tunnel).inner_remote = r.ipnet
    THEN tunnel_rebase(W, r.tunnel, r)
    ELSE RtmDelete(W, r)

(* write(rtfd, RTM_CHANGE): ESRCH when the kernel has no such route, and   *)
(* then the route is removed and added.                                    *)
RtmChange(W, r, t) ==
    IF ~KConfigured(W, W.heap[t].ifnum) THEN Fail(W, "fatal")
    ELSE IF ~KHas(W, r.ipnet, r.subnetmask)
    THEN addroute(rmroute(W, r), r, t)
    ELSE [Log(W, <<"RTM_CHANGE", r.ipnet, r.subnetmask, W.heap[t].ifnum>>)
          EXCEPT !.kroutes =
            {kr \in @ : ~(kr.ipnet = r.ipnet /\ kr.mask = r.subnetmask)}
            \cup {KRoute(r.ipnet, r.subnetmask, W.heap[t].ifnum)}]

chroute(W, r, t) ==
    IF W.st # "ok" THEN W
    ELSE IF r.tunnel = NULL THEN Fail(W, "crashed")
    ELSE IF Traps(W, r.tunnel) THEN Fail(W, "crashed")
    ELSE IF Deref(W, r.tunnel).inner_remote = r.ipnet
    THEN addroute(tunnel_rebase(W, r.tunnel, r), r, t)
    ELSE IF r.subnetmask = hostmask /\ r.ipnet = W.heap[t].inner_remote THEN W
    ELSE RtmChange(W, r, t)

-----------------------------------------------------------------------------
(* The daemon's configuration and the advertisements it may receive.       *)

local_outer_addr == <<198, 51, 100, 1>>
local_inner_addr == <<44, 0, 0, 1>>

Peer1 == <<203, 0, 113, 5>>
Peer2 == <<203, 0, 113, 7>>

Mask24 == <<255, 255, 255, 0>>
Mask15 == <<255, 254, 0, 0>>
NetA == <<10, 9, 0, 0>>
NetB == <<10, 9, 1, 0>>
NetC == <<10, 8, 0, 0>>
HostA == <<10, 9, 0, 5>>

Response(ipaddr, subnetmask, nexthop) ==
    [ipaddr |-> ipaddr, subnetmask |-> subnetmask, nexthop |-> nexthop]

Responses ==
    {Response(n, Mask24, p) : n \in {NetA, NetB}, p \in {Peer1, Peer2}}
    \cup {Response(NetA, hostmask, Peer1),
          Response(NetC, Mask15, Peer1),
          Response(<<10, 10, 3, 0>>, Mask24, Peer1),
          Response(<<10, 9, 1, 77>>, Mask24, Peer1),
          Response(NetA, Mask24, local_outer_addr),
          Response(<<203, 0, 113, 0>>, Mask24, Peer2)}

(* The acceptance check that forgets the comparison with ACCEPT.           *)
AcceptedWhenCovered(addr, cidr) ==
    ipmapnearest(acceptable, addr, cidr) # NoEntry

Accepted(addr, cidr) ==
    LET e == ipmapnearest(acceptable, addr, cidr)
    IN  e # NoEntry /\ acceptable[e] = ACCEPT

-----------------------------------------------------------------------------
(* calloc returns any free block: one that a Route still points to, or    *)
(* one that nothing points to.  The blocks nothing points to cannot be     *)
(* told apart, so the lowest of them stands for all; the heap has one more *)
(* block than the live and the pointed-to blocks can take up, so there is  *)
(* always such a block.  calloc gives NULL once MaxTunnels are alive.      *)

FreeSlots(W) == {s \in Slots : ~W.heap[s].live}

LiveSlots(W) == {s \in Slots : W.heap[s].live}

Dangling(W) ==
    {s \in FreeSlots(W) : \E k \in DOMAIN W.routes : W.routes[k].tunnel = s}

AllocChoices(W) ==
    LET fresh == FreeSlots(W) \ Dangling(W)
    IN  IF Cardinality(LiveSlots(W)) >= MaxTunnels THEN {}
        ELSE Dangling(W) \cup
             (IF fresh = {} THEN {}
              ELSE {CHOOSE s \in fresh : \A o \in fresh : s <= o})

-----------------------------------------------------------------------------
(* main.c: the graph and the reconciler.                                   *)

(* alloctunif that takes the number after the highest one in use.          *)
alloctunif_past_highest(T, bits) ==
    [T EXCEPT !.ifnum =
        IF bits = {} THEN 0
        ELSE 1 + CHOOSE i \in bits : \A j \in bits : j <= i]

(* alloctunif that does not count the static interfaces as in use.         *)
alloctunif_ignoring_static(T, bits) ==
    [T EXCEPT !.ifnum = nextbit(bits \ staticifs)]

alloctunif(T, bits) == [T EXCEPT !.ifnum = nextbit(bits)]

(* collapse that forgets bitclr.                                           *)
TearDownKeepingBit(W, t) ==
    LET T == W.heap[t]
        W1 == [W EXCEPT !.tunnels = ipmapremove(@, T.outer_remote, CIDR_HOST)]
        W2 == downtunnel(W1, T)
    IN  IF W2.st # "ok" THEN W2
        ELSE [W2 EXCEPT !.heap[t] = FreedBlock,
                        !.stale[t] = [T EXCEPT !.live = FALSE]]

(* A tear-down that forgets the interface in the kernel.                   *)
TearDownLeaking(W, t) ==
    LET T == W.heap[t]
    IN  [W EXCEPT !.tunnels = ipmapremove(@, T.outer_remote, CIDR_HOST),
                  !.interfaces = bitclr(@, T.ifnum),
                  !.heap[t] = FreedBlock,
                  !.stale[t] = [T EXCEPT !.live = FALSE]]

TearDown(W, t) ==
    LET T == W.heap[t]
        W1 == [W EXCEPT !.tunnels = ipmapremove(@, T.outer_remote, CIDR_HOST)]
        W2 == downtunnel(W1, T)
    IN  IF W2.st # "ok" THEN W2
        ELSE [W2 EXCEPT !.interfaces = bitclr(@, T.ifnum),
                        !.heap[t] = FreedBlock,
                        !.stale[t] = [T EXCEPT !.live = FALSE]]

collapse(W, t) ==
    IF W.st # "ok" \/ t = NULL THEN W
    ELSE IF Traps(W, t) THEN Fail(W, "crashed")
    ELSE IF Deref(W, t).nref < 0 THEN Fail(W, "crashed")
    ELSE IF Deref(W, t).nref # 0 THEN W
    ELSE IF ipmapfind(W.tunnels, Deref(W, t).outer_remote, CIDR_HOST)
            = NoEntry
    THEN Fail(W, "crashed")
    ELSE IF W.tunnels[ipkey(Deref(W, t).outer_remote, CIDR_HOST)] # t
    THEN Fail([W EXCEPT !.tunnels =
                  ipmapremove(@, Deref(W, t).outer_remote, CIDR_HOST)],
              "crashed")
    ELSE TearDown(W, t)

(* ripresponse, lines 652-661: the tunnel for the next hop, made when      *)
(* there is none.  `slot` is the block calloc returns (NULL: no memory).   *)
EnsureTunnel(W, response, slot) ==
    IF ipmapfind(W.tunnels, response.nexthop, CIDR_HOST) # NoEntry THEN W
    ELSE IF slot = NULL THEN Fail(W, "fatal")
    ELSE LET T == alloctunif(mktunnel(local_outer_addr, response.nexthop,
                                      local_inner_addr, response.ipaddr),
                             W.interfaces)
             W1 == [W EXCEPT !.heap[slot] = T,
                             !.stale[slot] = FreedBlock,
                             !.interfaces = bitset(@, T.ifnum)]
             W2 == uptunnel(W1, T)
         IN  IF W2.st # "ok" THEN W2
             ELSE [W2 EXCEPT !.tunnels =
                      ipmapinsert(@, response.nexthop, CIDR_HOST, slot)]

(* ripresponse that sets expires only when it links the route.             *)
MoveRouteOnly(W, key, t, tnow) ==
    LET route == W.routes[key]
    IN  IF route.tunnel = t THEN W
        ELSE LET K == IF route.tunnel = NULL
                      THEN addroute(W, route, t)
                      ELSE chroute(W, route, t)
                 U == unlinkroute(K, route.tunnel, RouteId(route))
                 C == collapse(U, route.tunnel)
                 L == linkroute(C, t, RouteId(route))
             IN  IF L.st # "ok" THEN L
                 ELSE [L EXCEPT !.routes[key].expires = tnow + TIMEOUT]

(* ripresponse that does not collapse the tunnel the route leaves.         *)
MoveRouteNoCollapse(W, key, t, tnow) ==
    LET route == W.routes[key]
        W1 == IF route.tunnel = t THEN W
              ELSE LET K == IF route.tunnel = NULL
                            THEN addroute(W, route, t)
                            ELSE chroute(W, route, t)
                       U == unlinkroute(K, route.tunnel, RouteId(route))
                   IN  linkroute(U, t, RouteId(route))
    IN  IF W1.st # "ok" THEN W1
        ELSE [W1 EXCEPT !.routes[key].expires = tnow + TIMEOUT]

(* ripresponse, lines 685-701.                                             *)
MoveRoute(W, key, t, tnow) ==
    LET route == W.routes[key]
        W1 == IF route.tunnel = t THEN W
              ELSE LET K == IF route.tunnel = NULL
                            THEN addroute(W, route, t)
                            ELSE chroute(W, route, t)
                       U == unlinkroute(K, route.tunnel, RouteId(route))
                       C == collapse(U, route.tunnel)
                   IN  linkroute(C, t, RouteId(route))
    IN  IF W1.st # "ok" THEN W1
        ELSE [W1 EXCEPT !.routes[key].expires = tnow + TIMEOUT]

(* ripresponse, lines 662-684: the route, made when there is none and no   *)
(* cover of the same tunnel serves it.  The length is passed on as         *)
(* netmask2cidr gave it: for a netmask with a hole line 682 asks the       *)
(* routes map to store a key of the largest size_t.                        *)
FindRoute(W, response, cidr, t, tnow) ==
    LET key == ipkey(response.ipaddr, cidr)
        cover == ipmapnearest(W.routes, response.ipaddr, cidr)
    IN  IF ipmapfind(W.routes, response.ipaddr, cidr) # NoEntry
        THEN MoveRoute(W, key, t, tnow)
        ELSE IF cover # NoEntry /\ W.routes[cover].tunnel = t THEN W
        ELSE IF cidr \notin 0..32 THEN Fail(W, "unspecified")
        ELSE MoveRoute(
                 [W EXCEPT !.routes = ipmapinsert(@, response.ipaddr, cidr,
                      mkroute(response.ipaddr, response.subnetmask,
                              response.nexthop))],
                 key, t, tnow)

Normalize(response) ==
    [response EXCEPT !.ipaddr = AddrAnd(@, response.subnetmask)]

(* ripresponse without the checks of the next hop (lines 637-646).         *)
ripresponse_unfiltered(W, resp, tnow, slot) ==
    LET cidr == netmask2cidr(resp.subnetmask)
        response == Normalize(resp)
    IN  IF W.st # "ok" THEN W
        ELSE IF ~Accepted(response.ipaddr, cidr) THEN W
        ELSE LET W1 == EnsureTunnel(W, response, slot)
             IN  IF W1.st # "ok" THEN W1
                 ELSE FindRoute(W1, response, cidr,
                          W1.tunnels[ipkey(response.nexthop, CIDR_HOST)], tnow)

ripresponse(W, resp, tnow, slot) ==
    LET cidr == netmask2cidr(resp.subnetmask)
        response == Normalize(resp)
    IN  IF W.st # "ok" THEN W
        ELSE IF response.nexthop = local_outer_addr THEN W
        ELSE IF AddrAnd(response.nexthop, response.subnetmask) = response.ipaddr
        THEN W
        ELSE IF ~Accepted(response.ipaddr, cidr) THEN W
        ELSE LET W1 == EnsureTunnel(W, response, slot)
             IN  IF W1.st # "ok" THEN W1
                 ELSE FindRoute(W1, response, cidr,
                          W1.tunnels[ipkey(response.nexthop, CIDR_HOST)], tnow)

(* The expiration sweep.                                                   *)
expire(W, tnow) == {k \in DOMAIN W.routes : W.routes[k].expires <= tnow}

destroy(W, key) ==
    IF W.st # "ok" THEN W
    ELSE LET route == W.routes[key]
             W1 == [W EXCEPT !.routes = ipmapremove(@, key[1], key[2])]
         IN  IF route.tunnel = NULL THEN Fail(W1, "crashed")
             ELSE collapse(unlinkroute(rmroute(W1, route), route.tunnel,
                                       RouteId(route)),
                           route.tunnel)

RECURSIVE DestroyAll(_, _)
DestroyAll(W, keys) ==
    IF keys = <<>> THEN W
    ELSE DestroyAll(destroy(W, Head(keys)), Tail(keys))

walkexpired(W, tnow) == DestroyAll(W, WalkOrder(expire(W, tnow)))

-----------------------------------------------------------------------------
(* Startup: discovery of what the kernel already holds.                    *)

(* sys.c discoverroute: what one message of the route dump reports, or     *)
(* NoEntry when the message is passed over.  gifinterfaces is the list     *)
(* discover hands to discoverrts.                                          *)
lookupifbyindex(gifinterfaces, index) ==
    LET hits == {i \in 1..Len(gifinterfaces) : gifinterfaces[i].index = index}
    IN  IF hits = {} THEN -1
        ELSE gifinterfaces[CHOOSE i \in hits : \A j \in hits : i <= j].ifnum

discoverroute(gifinterfaces, rtm) ==
    LET netmask == IF rtm.host THEN hostmask ELSE rtm.netmask
        name == IF rtm.gw = "link" /\ rtm.name = -1
                THEN lookupifbyindex(gifinterfaces, rtm.index)
                ELSE rtm.name
    IN  IF rtm.gw = "link"
        THEN IF name = -1 THEN NoEntry
             ELSE [ipnet |-> rtm.net, mask |-> netmask, isaddr |-> FALSE,
                   destaddr |-> ZeroAddr, destif |-> name]
        ELSE IF rtm.gw = "inet"
        THEN [ipnet |-> rtm.net, mask |-> netmask, isaddr |-> TRUE,
              destaddr |-> rtm.addr, destif |-> -1]
        ELSE NoEntry

(* learn_interface_callback that does not compare what ipmapinsert        *)
(* returns.                                                                *)
learn_interface_unchecked(W, ifa, slot) ==
    IF W.st # "ok" THEN W
    ELSE IF bitget(staticifs, ifa.ifnum) THEN W
    ELSE IF bitget(W.interfaces, ifa.ifnum) THEN Fail(W, "crashed")
    ELSE IF ~Accepted(ifa.inner_remote, CIDR_HOST) THEN Fail(W, "fatal")
    ELSE IF slot = NULL THEN Fail(W, "fatal")
    ELSE [W EXCEPT
            !.heap[slot] = [mktunnel(ifa.outer_local, ifa.outer_remote,
                                     ifa.inner_local, ifa.inner_remote)
                            EXCEPT !.ifnum = ifa.ifnum],
            !.stale[slot] = FreedBlock,
            !.tunnels = ipmapinsert(@, ifa.outer_remote, CIDR_HOST, slot),
            !.interfaces = bitset(@, ifa.ifnum)]

(* The Tunnel is made (line 358) before ipmapinsert is asked (line 364):   *)
(* when the index already has the outer_remote, ipmapinsert returns the    *)
(* tunnel that is there, the index stays as it is and the process dies     *)
(* with the new Tunnel made and not indexed.                               *)
learn_interface_callback(W, ifa, slot) ==
    IF W.st # "ok" THEN W
    ELSE IF bitget(staticifs, ifa.ifnum) THEN W
    ELSE IF bitget(W.interfaces, ifa.ifnum) THEN Fail(W, "crashed")
    ELSE IF ~Accepted(ifa.inner_remote, CIDR_HOST) THEN Fail(W, "fatal")
    ELSE IF slot = NULL THEN Fail(W, "fatal")
    ELSE LET W1 == [W EXCEPT
                      !.heap[slot] =
                          [mktunnel(ifa.outer_local, ifa.outer_remote,
                                    ifa.inner_local, ifa.inner_remote)
                           EXCEPT !.ifnum = ifa.ifnum],
                      !.stale[slot] = FreedBlock]
             W2 == [W1 EXCEPT !.tunnels =
                       ipmapinsert(@, ifa.outer_remote, CIDR_HOST, slot)]
         IN  IF W2.tunnels[ipkey(ifa.outer_remote, CIDR_HOST)] # slot
             THEN Fail(W2, "fatal")
             ELSE [W2 EXCEPT !.interfaces = bitset(@, ifa.ifnum)]

(* The tunnel ipmapdo stops at, NULL when the walk visits them all:        *)
(* the first tunnel of the index, in walk order, among `matching`.         *)
FirstTunnel(W, matching) ==
    LET order == ipmapdo(W.tunnels)
        hits == {i \in 1..Len(order) : W.tunnels[order[i]] \in matching}
    IN  IF hits = {} THEN NULL
        ELSE W.tunnels[order[CHOOSE i \in hits : \A j \in hits : i <= j]]

(* tunnelfindbydest that compares the outer end of the tunnel.             *)
tunnelfindbyouter(W, destaddr) ==
    FirstTunnel(W, {t \in Slots : W.heap[t].live
                                   /\ W.heap[t].outer_remote = destaddr})

tunnelfindbydest(W, destaddr) ==
    FirstTunnel(W, {t \in Slots : W.heap[t].live
                                   /\ W.heap[t].inner_remote = destaddr})

tunnelfindbyname(W, name) ==
    FirstTunnel(W, {t \in Slots : W.heap[t].live /\ W.heap[t].ifnum = name})

(* Lines 415-438 that link a route the map already holds once more.        *)
LearnRouteAgain(W, d, cidr, t) ==
    LET route == mkroute(d.ipnet, d.mask, W.heap[t].outer_remote)
        e == ipmapfind(W.routes, d.ipnet, cidr)
    IN  IF e # NoEntry /\ W.routes[e].gateway # route.gateway
        THEN Fail(W, "fatal")
        ELSE linkroute(
                 [W EXCEPT !.routes = ipmapinsert(@, d.ipnet, cidr, route)],
                 t, RouteId(route))

(* learn_route_callback, lines 415-438.                                    *)
LearnNewRoute(W, d, cidr, t) ==
    LET route == mkroute(d.ipnet, d.mask, W.heap[t].outer_remote)
        e == ipmapfind(W.routes, d.ipnet, cidr)
    IN  IF e # NoEntry
        THEN IF W.routes[e].ipnet # route.ipnet
                \/ W.routes[e].subnetmask # route.subnetmask
                \/ W.routes[e].gateway # route.gateway
             THEN Fail(W, "fatal")
             ELSE W
        ELSE linkroute(
                 [W EXCEPT !.routes = ipmapinsert(@, d.ipnet, cidr, route)],
                 t, RouteId(route))

learn_route_callback(W, d) ==
    LET cidr == netmask2cidr(d.mask)
        t == IF d.isaddr THEN tunnelfindbydest(W, d.destaddr)
             ELSE tunnelfindbyname(W, d.destif)
    IN  IF W.st # "ok" THEN W
        ELSE IF cidr = -1 THEN Fail(W, "fatal")
        ELSE IF t = NULL
        THEN IF Accepted(d.ipnet, cidr) THEN Fail(W, "fatal") ELSE W
        ELSE IF ~Accepted(d.ipnet, cidr) THEN Fail(W, "fatal")
        ELSE LearnNewRoute(W, d, cidr, t)

(* unlink_redundant over the coverage map of one tunnel, in walk order.    *)
(* parent is the key of p.parent, NoEntry for NULL.                        *)
RECURSIVE unlink_redundant(_, _, _, _)
unlink_redundant(W, t, parent, order) ==
    IF order = <<>> THEN W
    ELSE LET key == Head(order)
             redundant ==
                 /\ parent # NoEntry
                 /\ AddrAnd(parent[1], cidr2mask(parent[2]))
                      = AddrAnd(key[1], cidr2mask(parent[2]))
         IN  IF redundant
             THEN unlink_redundant(
                      unlinkroute(W, t, <<key[1], cidr2mask(key[2])>>),
                      t, parent, Tail(order))
             ELSE unlink_redundant(W, t, key, Tail(order))

(* The scratch map fix_overlaps builds of one tunnel's routes.              *)
Coverage(W, t) ==
    {KeyOf(W.heap[t].routes[i]) : i \in 1..Len(W.heap[t].routes)}

(* fix_overlaps of one tunnel; `order` is the order ipmapdotopdown visits   *)
(* the scratch map in.                                                     *)
fix_overlaps(W, t, order) == unlink_redundant(W, t, NoEntry, order)

(* One visiting order for every tunnel of the index: any order the         *)
(* guarantee of ipmapdotopdown allows, the pre-order walk among them.      *)
Walks(W) ==
    LET ts == {W.tunnels[k] : k \in DOMAIN W.tunnels}
    IN  {f \in [ts -> UNION {TopDownOrders(Coverage(W, t)) : t \in ts}] :
            \A t \in ts : f[t] \in TopDownOrders(Coverage(W, t))}

RECURSIVE FixAll(_, _, _)
FixAll(W, order, walks) ==
    IF order = <<>> THEN W
    ELSE FixAll(fix_overlaps(W, W.tunnels[Head(order)],
                             walks[W.tunnels[Head(order)]]),
                Tail(order), walks)

set_expire_time(W, when) ==
    [W EXCEPT !.routes = [k \in DOMAIN @ |-> [@[k] EXCEPT !.expires = when]]]

(* learnsys after discover: fix_overlaps on every tunnel, then the seed of *)
(* the expiration times.                                                   *)
learnsys(W, time, walks) ==
    set_expire_time(FixAll(W, ipmapdo(W.tunnels), walks), time + TIMEOUT)

(* cleanup: find_empty prepends, so the empty tunnels are collapsed in the *)
(* reverse of the walk order.                                              *)
find_empty(W) ==
    LET order == ipmapdo(W.tunnels)
    IN  [i \in 1..Len(order) |-> W.tunnels[order[Len(order) + 1 - i]]]

RECURSIVE CollapseEmpty(_, _)
CollapseEmpty(W, list) ==
    IF list = <<>> THEN W
    ELSE LET T == W.heap[Head(list)]
         IN  IF (T.routes = <<>>) # (T.nref = 0) THEN Fail(W, "crashed")
             ELSE IF T.routes = <<>>
             THEN CollapseEmpty(collapse(W, Head(list)), Tail(list))
             ELSE CollapseEmpty(W, Tail(list))

cleanup(W) == CollapseEmpty(W, find_empty(W))

-----------------------------------------------------------------------------
(* What the kernel holds when the daemon starts.                           *)

Ifa(ifnum, outer_remote, inner_remote) ==
    [ifnum |-> ifnum, outer_local |-> local_outer_addr,
     outer_remote |-> outer_remote, inner_local |-> local_inner_addr,
     inner_remote |-> inner_remote]

(* A message of the route dump for a route through gif<ifnum>: its gateway *)
(* is the interface by name ("name"), by index alone ("index"), or the     *)
(* address `addr` ("inet").                                                *)
Rtm(net, netmask, how, ifnum, addr) ==
    [net |-> net, netmask |-> netmask, host |-> netmask = hostmask,
     gw |-> IF how = "inet" THEN "inet" ELSE "link",
     name |-> IF how = "name" THEN ifnum ELSE -1,
     index |-> ifnum + 1, addr |-> addr, ifnum |-> ifnum]

(* The -A and -I options of every run: 10/8 accepted, 10.10/16 ignored.    *)
Policy ==
    ipmapinsert(ipmapinsert(EmptyMap, <<10, 0, 0, 0>>, 8, ACCEPT),
                <<10, 10, 0, 0>>, 16, IGNORE)

Config(static, ifs, dump, sent) ==
    [static |-> static, ifs |-> ifs, dump |-> dump, sent |-> sent]

(* A kernel without tunnels.                                               *)
Fresh == Config({}, <<>>, <<>>, Responses)

(* The kernel an earlier run left: gif0 to Peer1 based on NetA, with the   *)
(* host route the kernel added for it.                                     *)
Restart ==
    Config({}, <<Ifa(0, Peer1, NetA)>>,
           <<Rtm(NetA, hostmask, "name", 0, ZeroAddr),
             Rtm(NetA, Mask24, "name", 0, ZeroAddr),
             Rtm(NetB, Mask24, "name", 0, ZeroAddr)>>,
           {Response(NetA, Mask24, Peer1), Response(NetB, Mask24, Peer1),
            Response(NetA, hostmask, Peer1), Response(NetA, Mask24, Peer2)})

(* gif0 points at a host inside the network routed through it.             *)
HostInside ==
    Config({}, <<Ifa(0, Peer1, HostA)>>,
           <<Rtm(HostA, hostmask, "name", 0, ZeroAddr),
             Rtm(NetA, Mask24, "inet", 0, HostA)>>,
           {Response(NetA, Mask24, Peer1), Response(HostA, hostmask, Peer1)})

(* gif0 and gif1 are the administrator's (-s 0 -s 1); gif1 exists.         *)
Static ==
    Config({0, 1}, <<Ifa(1, <<192, 0, 2, 9>>, <<192, 168, 0, 2>>)>>,
           <<Rtm(<<192, 168, 0, 2>>, hostmask, "name", 1, ZeroAddr)>>,
           {Response(NetA, Mask24, Peer1), Response(NetB, Mask24, Peer2)})

(* gif0 carries nothing the dump names it for.                             *)
Idle ==
    Config({}, <<Ifa(0, Peer1, NetA)>>,
           <<Rtm(NetA, hostmask, "index", 0, ZeroAddr)>>,
           {Response(NetA, Mask24, Peer1),
            Response(NetB, <<255, 255, 0, 255>>, Peer1)})

(* Two interfaces to the same peer.                                        *)
Twice ==
    Config({}, <<Ifa(0, Peer1, NetA), Ifa(1, Peer1, NetB)>>,
           <<Rtm(NetA, hostmask, "name", 0, ZeroAddr)>>,
           {Response(NetA, Mask24, Peer1)})

(* Two tunnels left by an earlier run.                                     *)
Pair ==
    Config({}, <<Ifa(0, Peer1, NetA), Ifa(1, Peer2, NetB)>>,
           <<Rtm(NetA, hostmask, "name", 0, ZeroAddr),
             Rtm(NetA, Mask24, "name", 0, ZeroAddr),
             Rtm(NetB, hostmask, "name", 1, ZeroAddr),
             Rtm(NetB, Mask24, "inet", 1, NetB)>>,
           {Response(NetA, Mask24, Peer2), Response(NetB, Mask24, Peer2)})

(* gif0 carries a network and, inside it, a narrower one.                   *)
Nested ==
    Config({}, <<Ifa(0, Peer1, NetC)>>,
           <<Rtm(NetC, hostmask, "name", 0, ZeroAddr),
             Rtm(NetC, Mask15, "name", 0, ZeroAddr),
             Rtm(NetA, Mask24, "name", 0, ZeroAddr)>>,
           {Response(NetC, Mask15, Peer1), Response(NetA, Mask24, Peer1),
            Response(NetA, hostmask, Peer1),
            Response(<<192, 168, 7, 0>>, Mask24, Peer1),
            Response(NetA, Mask24, <<10, 9, 0, 77>>)})

(* A route of no tunnel, then one with a netmask that has a hole.          *)
Unusual ==
    Config({}, <<>>,
           <<Rtm(<<192, 168, 1, 0>>, Mask24, "inet", 7, <<192, 168, 0, 1>>),
             Rtm(<<192, 168, 0, 0>>, <<255, 255, 0, 255>>, "inet", 7,
                 <<192, 168, 0, 1>>)>>,
           {Response(NetA, Mask24, Peer1)})

(* An accepted network routed to the outer address of gif0's peer.         *)
ViaOuter ==
    Config({}, <<Ifa(0, Peer1, NetA)>>,
           <<Rtm(NetA, hostmask, "name", 0, ZeroAddr),
             Rtm(NetB, Mask24, "inet", 7, Peer1)>>,
           {Response(NetA, Mask24, Peer1)})

(* gif0 carries a network nobody accepts.                                  *)
Foreign ==
    Config({}, <<Ifa(0, Peer1, NetA)>>,
           <<Rtm(NetA, hostmask, "name", 0, ZeroAddr),
             Rtm(<<192, 168, 7, 0>>, Mask24, "name", 0, ZeroAddr)>>,
           {Response(NetA, Mask24, Peer1)})

(* The dump names one route of gif0 twice.                                 *)
Doubled ==
    Config({}, <<Ifa(0, Peer1, NetA)>>,
           <<Rtm(NetA, hostmask, "name", 0, ZeroAddr),
             Rtm(NetA, Mask24, "name", 0, ZeroAddr),
             Rtm(NetA, Mask24, "inet", 0, NetA)>>,
           {Response(NetA, Mask24, Peer1)})

(* The dump names one network through gif0 and through gif1.               *)
Conflict ==
    Config({}, <<Ifa(0, Peer1, NetA), Ifa(1, Peer2, NetB)>>,
           <<Rtm(NetA, hostmask, "name", 0, ZeroAddr),
             Rtm(NetB, hostmask, "name", 1, ZeroAddr),
             Rtm(NetA, Mask24, "name", 0, ZeroAddr),
             Rtm(NetA, Mask24, "name", 1, ZeroAddr)>>,
           {Response(NetA, Mask24, Peer1)})

Configs ==
    {Fresh, Restart, HostInside, Static, Idle, Twice, Pair, Nested,
     Unusual, ViaOuter, Foreign, Doubled, Conflict}

Init ==
    \E cfg \in Configs :
        /\ pc = IF cfg.ifs # <<>> THEN "discoverifs"
                ELSE IF cfg.dump # <<>> THEN "discoverrts" ELSE "learnsys"
        /\ acceptable = Policy
        /\ universe = cfg.sent
        /\ staticifs = cfg.static
        /\ interfaces = cfg.static
        /\ tunnels = EmptyMap
        /\ heap = [s \in Slots |-> FreedBlock]
        /\ stale = [s \in Slots |-> FreedBlock]
        /\ routes = EmptyMap
        /\ kifs = [n \in {cfg.ifs[i].ifnum : i \in 1..Len(cfg.ifs)} |->
                     LET a == cfg.ifs[CHOOSE i \in 1..Len(cfg.ifs) :
                                          cfg.ifs[i].ifnum = n]
                     IN  [outer_local |-> a.outer_local,
                          outer_remote |-> a.outer_remote,
                          inner_local |-> a.inner_local,
                          inner_remote |-> a.inner_remote,
                          configured |-> TRUE]]
        /\ kroutes = {KRoute(cfg.dump[i].net, cfg.dump[i].netmask,
                             cfg.dump[i].ifnum) : i \in 1..Len(cfg.dump)}
        /\ clock = 0
        /\ now = 0
        /\ todo = 0
        /\ difs = cfg.ifs
        /\ drts = cfg.dump
        /\ deleting = <<>>
        /\ last = [op |-> "init", arg |-> <<>>, log |-> <<>>, at |-> <<>>]
        /\ root = EmptyMap
        /\ inserted = <<>>
        /\ answer = NoAnswer

-----------------------------------------------------------------------------
(* The steps of the single thread.                                         *)

World ==
    [heap |-> heap, stale |-> stale, tunnels |-> tunnels, routes |-> routes,
     interfaces |-> interfaces, kifs |-> kifs, kroutes |-> kroutes,
     ub |-> "trap", st |-> "ok", log |-> <<>>, at |-> <<>>]

(* The world as a handler finds it when the allocator treats freed blocks  *)
(* as `ub` says.                                                           *)
WorldUnder(ub) == [World EXCEPT !.ub = ub]

(* Only a handler that can come upon a freed Tunnel depends on the         *)
(* allocator.                                                              *)
UBChoices(W) == IF Dangling(W) = {} THEN {"trap"} ELSE UBViews

(* calloc of a Tunnel: one of the free blocks, NULL when there is none.    *)
Calloc(W) == IF AllocChoices(W) = {} THEN {NULL} ELSE AllocChoices(W)

Commit(W, op, arg, nextpc) ==
    /\ heap' = W.heap
    /\ stale' = W.stale
    /\ tunnels' = W.tunnels
    /\ routes' = W.routes
    /\ interfaces' = W.interfaces
    /\ kifs' = W.kifs
    /\ kroutes' = W.kroutes
    /\ last' = [op |-> op, arg |-> arg, log |-> W.log, at |-> W.at]
    /\ pc' = IF W.st = "ok" THEN nextpc ELSE W.st

(* discover hands its own, still empty, list to discoverrts.               *)
gifinterfaces == <<>>

LearnInterface ==
    /\ pc = "discoverifs"
    /\ \E slot \in Calloc(World) :
           Commit(learn_interface_callback(World, Head(difs), slot),
                  "learn_interface", Head(difs).ifnum,
                  IF Tail(difs) # <<>> THEN "discoverifs"
                  ELSE IF drts # <<>> THEN "discoverrts" ELSE "learnsys")
    /\ difs' = Tail(difs)
    /\ UNCHANGED <<acceptable, staticifs, clock, now, todo, drts, deleting,
                   universe, root, inserted, answer>>

LearnRoute ==
    /\ pc = "discoverrts"
    /\ LET d == discoverroute(gifinterfaces, Head(drts))
       IN  Commit(IF d = NoEntry THEN World
                  ELSE learn_route_callback(World, d),
                  "learn_route", <<Head(drts).net, Head(drts).netmask>>,
                  IF Tail(drts) # <<>> THEN "discoverrts" ELSE "learnsys")
    /\ drts' = Tail(drts)
    /\ UNCHANGED <<acceptable, staticifs, clock, now, todo, difs, deleting,
                   universe, root, inserted, answer>>

LearnSys ==
    /\ pc = "learnsys"
    /\ \E walks \in Walks(World) :
           Commit(learnsys(World, clock, walks), "learnsys", <<>>, "cleanup")
    /\ UNCHANGED <<acceptable, staticifs, clock, now, todo, difs, drts,
                   deleting, universe, root, inserted, answer>>

Cleanup ==
    /\ pc = "cleanup"
    /\ Commit(cleanup(World), "cleanup", <<>>, "recv")
    /\ UNCHANGED <<acceptable, staticifs, clock, now, todo, difs, drts,
                   deleting, universe, root, inserted, answer>>

(* riptide up to the loop over the responses: a datagram that fails to     *)
(* parse or to authenticate returns at once.                               *)
Recv ==
    /\ pc = "recv"
    /\ \E t \in {clock, clock + Tick}, n \in 0..MaxResponses :
           /\ t <= MaxTicks * Tick
           /\ clock' = t
           /\ now' = t
           /\ todo' = n
           /\ pc' = IF n = 0 THEN "sweep" ELSE "responses"
    /\ last' = [op |-> "recv", arg |-> <<>>, log |-> <<>>, at |-> <<>>]
    /\ UNCHANGED <<acceptable, staticifs, interfaces, tunnels, heap, stale, routes,
                   kifs, kroutes, difs, drts, deleting,
                   universe, root, inserted, answer>>

RecvBad ==
    /\ pc = "recv"
    /\ last' = [op |-> "recvbad", arg |-> <<>>, log |-> <<>>, at |-> <<>>]
    /\ UNCHANGED <<pc, acceptable, staticifs, interfaces, tunnels, heap, stale,
                   routes, kifs, kroutes, clock, now, todo, difs, drts,
                   deleting, universe, root, inserted, answer>>

(* The key ripresponse looks the route of a response up under: the        *)
(* address is masked first (line 637), the length is what netmask2cidr     *)
(* gave.  For a netmask with a hole that is the key of no entry.           *)
RouteKey(response) ==
    IF netmask2cidr(response.subnetmask) \in 0..32
    THEN ipkey(Normalize(response).ipaddr,
               netmask2cidr(response.subnetmask))
    ELSE NoEntry

(* expires of the route a response names as it is before the response is   *)
(* processed, -1 when the map has no such route.                           *)
OldExpires(response) ==
    IF RouteKey(response) \in DOMAIN routes
    THEN routes[RouteKey(response)].expires ELSE -1

RipResponse ==
    /\ pc = "responses"
    /\ \E response \in universe, slot \in Calloc(World),
          ub \in UBChoices(World) :
           Commit(ripresponse(WorldUnder(ub), response, now, slot),
                  "ripresponse",
                  [response |-> response, old |-> OldExpires(response)],
                  IF todo = 1 THEN "sweep" ELSE "responses")
    /\ todo' = todo - 1
    /\ UNCHANGED <<acceptable, staticifs, clock, now, difs, drts, deleting,
                   universe, root, inserted, answer>>

Expire ==
    /\ pc = "sweep"
    /\ deleting' = WalkOrder(expire(World, now))
    /\ pc' = IF expire(World, now) = {} THEN "recv" ELSE "destroy"
    /\ last' = [op |-> "expire", arg |-> <<>>, log |-> <<>>, at |-> <<>>]
    /\ UNCHANGED <<acceptable, staticifs, interfaces, tunnels, heap, stale, routes,
                   kifs, kroutes, clock, now, todo, difs, drts, universe, root, inserted, answer>>

Destroy ==
    /\ pc = "destroy"
    /\ \E ub \in UBChoices(World) :
           Commit(destroy(WorldUnder(ub), Head(deleting)), "destroy",
                  Head(deleting),
                  IF Tail(deleting) = <<>> THEN "recv" ELSE "destroy")
    /\ deleting' = Tail(deleting)
    /\ UNCHANGED <<acceptable, staticifs, clock, now, todo, difs, drts,
                   universe, root, inserted, answer>>

Next ==
    \/ LearnInterface
    \/ LearnRoute
    \/ LearnSys
    \/ Cleanup
    \/ Recv
    \/ RecvBad
    \/ RipResponse
    \/ Expire
    \/ Destroy

Spec == Init /\ [][Next]_vars

-----------------------------------------------------------------------------
(* The test program of the IPMap (src/testipmapfind.c) and the calls the   *)
(* daemon makes on its maps, on a map of their own.                        *)

MaxInserts == 1

(* The entries setup lays out by hand: 44.0.0.0/8 is an inner node without *)
(* a datum, a..e hang below it.                                            *)
SetupEntries ==
    << <<<<44, 0, 0, 1>>, 32, "a">>,
       <<<<44, 130, 0, 0>>, 16, "b">>,
       <<<<44, 130, 24, 0>>, 24, "c">>,
       <<<<44, 130, 130, 0>>, 24, "d">>,
       <<<<44, 130, 24, 25>>, 32, "e">> >>

RECURSIVE InsertAll(_, _)
InsertAll(map, entries) ==
    IF entries = <<>> THEN map
    ELSE InsertAll(ipmapinsert(map, Head(entries)[1], Head(entries)[2],
                               Head(entries)[3]),
                   Tail(entries))

setup == InsertAll(EmptyMap, SetupEntries)

(* The keys and lengths main asks for.                                     *)
TestKeys ==
    {<<44, 0, 0, 1>>, <<44, 130, 24, 25>>, <<44, 130, 24, 1>>,
     <<44, 188, 0, 1>>, <<44, 130, 130, 0>>, <<44, 130, 131, 0>>,
     <<44, 130, 24, 0>>}

TestLens == {8, 16, 24, 27, 32}

(* What main expects of ipmapfind on the map of setup.                     *)
Expected ==
    << <<<<44, 0, 0, 1>>, 24, <<>>>>,
       <<<<44, 0, 0, 1>>, 32, <<"a">>>>,
       <<<<44, 130, 24, 25>>, 32, <<"e">>>>,
       <<<<44, 130, 24, 1>>, 32, <<>>>>,
       <<<<44, 188, 0, 1>>, 32, <<>>>>,
       <<<<44, 130, 130, 0>>, 24, <<"d">>>>,
       <<<<44, 130, 130, 0>>, 27, <<>>>>,
       <<<<44, 130, 131, 0>>, 27, <<>>>>,
       <<<<44, 130, 24, 0>>, 24, <<"c">>>> >>

(* Entries put into the map after setup, and the data they carry.          *)
InsertChoices ==
    {<<<<44, 0, 0, 1>>, 24>>, <<<<44, 188, 0, 1>>, 32>>,
     <<<<44, 130, 131, 0>>, 27>>, <<<<44, 130, 130, 7>>, 24>>,
     <<<<44, 130, 24, 1>>, 8>>}

Data == <<"f", "g", "h", "i">>

(* The datum a lookup returns, as a sequence: empty for NULL.              *)
Datum(map, entry) == IF entry = NoEntry THEN <<>> ELSE <<map[entry]>>

(* The inserts made after the initial map was laid out.                    *)
Made ==
    Len(SelectSeq(inserted,
                  LAMBDA e : \E i \in 1..Len(Data) : Data[i] = e[3]))

(* Only lookups and walks follow once the first of them was made.          *)
Building == answer.op \in {"none", "ipmapinsert"}

MapInit ==
    /\ pc = "test"
    /\ acceptable = EmptyMap
    /\ staticifs = {}
    /\ interfaces = {}
    /\ tunnels = EmptyMap
    /\ heap = [s \in Slots |-> FreedBlock]
    /\ stale = [s \in Slots |-> FreedBlock]
    /\ routes = EmptyMap
    /\ kifs = <<>>
    /\ kroutes = {}
    /\ clock = 0
    /\ now = 0
    /\ todo = 0
    /\ difs = <<>>
    /\ drts = <<>>
    /\ deleting = <<>>
    /\ universe = {}
    /\ last = [op |-> "init", arg |-> <<>>, log |-> <<>>, at |-> <<>>]
    /\ \E entries \in {<<>>, SetupEntries} :
           /\ root = InsertAll(EmptyMap, entries)
           /\ inserted = entries
    /\ answer = NoAnswer

Daemon ==
    <<pc, acceptable, staticifs, interfaces, tunnels, heap, stale, routes,
      kifs, kroutes, clock, now, todo, difs, drts, deleting, universe, last>>

MapInsert ==
    /\ Building
    /\ Made < MaxInserts
    /\ \E q \in InsertChoices :
           /\ root' = ipmapinsert(root, q[1], q[2], Data[Made + 1])
           /\ inserted' = Append(inserted, <<q[1], q[2], Data[Made + 1]>>)
           /\ answer' = [op |-> "ipmapinsert", key |-> q[1], keylen |-> q[2],
                         result |-> <<root'[ipkey(q[1], q[2])]>>]
    /\ UNCHANGED Daemon

MapFind ==
    /\ Building
    /\ \E key \in TestKeys, keylen \in TestLens :
           answer' = [op |-> "ipmapfind", key |-> key, keylen |-> keylen,
                      result |-> Datum(root, ipmapfind(root, key, keylen))]
    /\ UNCHANGED <<Daemon, root, inserted>>

MapNearest ==
    /\ Building
    /\ \E key \in TestKeys, keylen \in TestLens :
           answer' = [op |-> "ipmapnearest", key |-> key, keylen |-> keylen,
                      result |-> Datum(root,
                                       ipmapnearest(root, key, keylen))]
    /\ UNCHANGED <<Daemon, root, inserted>>

MapWalk ==
    /\ Building
    /\ answer' = [op |-> "ipmapdotopdown", key |-> ZeroAddr, keylen |-> 0,
                  result |-> ipmapdotopdown(root)]
    /\ UNCHANGED <<Daemon, root, inserted>>

MapNext ==
    \/ MapInsert
    \/ MapFind
    \/ MapNearest
    \/ MapWalk

MapSpec == MapInit /\ [][MapNext]_vars

-----------------------------------------------------------------------------
(* The graph as the claims speak of it.                                    *)

(* The tunnels of the tunnel index (their blocks).                         *)
Indexed == {tunnels[k] : k \in DOMAIN tunnels}

(* The process runs and is between two public mutations: after discovery   *)
(* with fix_overlaps, after cleanup, after a ripresponse, after a sweep.   *)
Settled == pc \in {"cleanup", "recv", "responses", "sweep"}

(* Startup is over and no packet is half processed.                        *)
Idling == pc = "recv"

Occurrences(list, rid) == Cardinality({i \in 1..Len(list) : list[i] = rid})

LinkedTo(t) == {heap[t].routes[i] : i \in 1..Len(heap[t].routes)}

(* The last step rebased tunnel t.                                         *)
Rebased(t) ==
    \E i \in 1..Len(last.log) :
        last.log[i][1] = "tunnel_rebase" /\ last.log[i][2] = t

(* C1: every tunnel's nref equals the number of routes in its routes list, *)
(* in every state discovery, ripresponse and the sweep reach.              *)
C1_NrefCountsRoutes ==
    \A t \in Slots : heap[t].live => heap[t].nref = Len(heap[t].routes)

(* A tunnel that lost a route to the sweep and still holds another.        *)
C1_Witness ==
    /\ last.op = "destroy"
    /\ pc = "recv"
    /\ \E t \in Indexed : heap[t].nref >= 1 /\ Rebased(t)

(* C2: between public mutations every route of the routes map with a       *)
(* tunnel back-reference is exactly once in that tunnel's routes list and  *)
(* has the tunnel's outer_remote as gateway.                               *)
C2_BackReferenceLinked ==
    Settled =>
        \A k \in DOMAIN routes :
            routes[k].tunnel # NULL =>
                /\ heap[routes[k].tunnel].live
                /\ Occurrences(heap[routes[k].tunnel].routes,
                               RouteId(routes[k])) = 1
                /\ routes[k].gateway = heap[routes[k].tunnel].outer_remote

(* C3: between public mutations every tunnel of the index has the ipnet of *)
(* one of its linked routes as inner_remote, or has nref 0.                *)
C3_InnerRemoteIsBasis ==
    Settled =>
        \A t \in Indexed :
            \/ \E rid \in LinkedTo(t) : rid[1] = heap[t].inner_remote
            \/ heap[t].nref = 0

(* The process has not died.                                               *)
Alive == pc \notin {"fatal", "crashed", "unspecified"}

(* <<t, ipnet, subnetmask>> for every tunnel_rebase(t, route) of the last  *)
(* step.                                                                   *)
RebasedRoutes ==
    {<<last.log[i][2], last.log[i][3], last.log[i][4]>> :
        i \in {j \in 1..Len(last.log) : last.log[j][1] = "tunnel_rebase"}}

(* C4: after a rebase of tunnel T by chroute or rmroute and the caller's   *)
(* unlink, the kernel routes through T's interface are T's linked routes:  *)
(* each linked route is in the kernel with its own mask, the removed route *)
(* is not, and the kernel has nothing else through T but the host route to *)
(* inner_remote.                                                           *)
C4_KernelEqualsGraphAfterRebase ==
    Alive =>
        \A e \in RebasedRoutes :
            heap[e[1]].live =>
                /\ \A rid \in LinkedTo(e[1]) :
                       KRoute(rid[1], rid[2], heap[e[1]].ifnum) \in kroutes
                /\ KRoute(e[2], e[3], heap[e[1]].ifnum) \notin kroutes
                /\ \A kr \in kroutes :
                       kr.ifnum = heap[e[1]].ifnum =>
                           \/ <<kr.ipnet, kr.mask>> \in LinkedTo(e[1])
                           \/ /\ kr.ipnet = heap[e[1]].inner_remote
                              /\ kr.mask = hostmask

(* C5 as stated: between public mutations the bits set in interfaces are   *)
(* the ifnums of the tunnels of the index.                                 *)
C5_BitvecIsTunnelIfnums ==
    Settled => interfaces = {heap[t].ifnum : t \in Indexed}

(* C5, amended: between public mutations the bits set in interfaces are    *)
(* the ifnums of the tunnels of the index together with the interfaces     *)
(* named by -s.                                                            *)
C5_BitvecIsTunnelsAndStatic ==
    Settled => interfaces = {heap[t].ifnum : t \in Indexed} \cup staticifs

(* A tunnel allocated past the static interface.                           *)
C5_Witness ==
    /\ Settled
    /\ staticifs # {}
    /\ \E t \in Indexed : heap[t].ifnum \notin staticifs
    /\ last.op = "ripresponse"

(* Every tunnel of the index is a live tunnel stored under its own         *)
(* outer_remote as a host key, and under no other key.                     *)
IndexedByOuterRemote ==
    \A k \in DOMAIN tunnels :
        /\ heap[tunnels[k]].live
        /\ k = ipkey(heap[tunnels[k]].outer_remote, CIDR_HOST)
        /\ \A o \in DOMAIN tunnels : tunnels[o] = tunnels[k] => o = k

(* Discovery reports an interface, not a static one, whose outer_remote    *)
(* the index already has, and the process dies of it.                      *)
DuplicateAborts ==
    (/\ pc = "discoverifs"
     /\ ~bitget(staticifs, Head(difs).ifnum)
     /\ ipmapfind(tunnels, Head(difs).outer_remote, CIDR_HOST) # NoEntry)
    => pc' = "fatal"

(* C6: in every state the tunnels of the index have distinct outer_remotes *)
(* and each is stored under (outer_remote, /32); discovery dies rather     *)
(* than index a second interface with an outer_remote already indexed.     *)
C6_OuterRemoteUnique == []IndexedByOuterRemote /\ [][DuplicateAborts]_vars

(* Discovery has died on the second interface to the same peer: its       *)
(* Tunnel was made and is in no index.                                     *)
C6_Witness ==
    /\ pc = "fatal"
    /\ last.op = "learn_interface"
    /\ Cardinality(Indexed) = 1
    /\ \E t \in Indexed : kifs[last.arg].outer_remote = heap[t].outer_remote
    /\ \E s \in Slots \ Indexed :
           heap[s].live /\ heap[s].outer_remote = kifs[last.arg].outer_remote

(* C7: once startup is over and after every processed packet no tunnel     *)
(* with nref 0 is in the index, and every interface the kernel has is a    *)
(* static one or the interface of a tunnel of the index, with its bit set. *)
C7_NoEmptyTunnelLeft ==
    Idling =>
        /\ \A t \in Indexed : heap[t].nref # 0
        /\ DOMAIN kifs \subseteq {heap[t].ifnum : t \in Indexed} \cup staticifs
        /\ \A t \in Indexed : bitget(interfaces, heap[t].ifnum)

(* ripresponse lets the response through its checks (lines 636-651).       *)
Accepts(response) ==
    /\ netmask2cidr(response.subnetmask) >= 0
    /\ response.nexthop # local_outer_addr
    /\ AddrAnd(response.nexthop, response.subnetmask)
         # AddrAnd(response.ipaddr, response.subnetmask)
    /\ Accepted(AddrAnd(response.ipaddr, response.subnetmask),
                netmask2cidr(response.subnetmask))

(* This step takes the route under key k away from its tunnel: the sweep   *)
(* destroys it, or an accepted response names it with another next hop,    *)
(* and the process survives the step.                                      *)
Leaves(k) ==
    /\ pc' \notin {"fatal", "crashed", "unspecified"}
    /\ \/ pc = "destroy" /\ k = Head(deleting)
       \/ /\ pc = "responses"
          /\ Accepts(last'.arg.response)
          /\ RouteKey(last'.arg.response) = k
          /\ ipmapfind(tunnels, last'.arg.response.nexthop, CIDR_HOST)
               # ipkey(heap[routes[k].tunnel].outer_remote, CIDR_HOST)

(* The route under key k has a tunnel, is its basis, and the tunnel has    *)
(* another route linked.                                                   *)
BasisWithOthers(k) ==
    /\ routes[k].tunnel # NULL
    /\ heap[routes[k].tunnel].live
    /\ routes[k].ipnet = heap[routes[k].tunnel].inner_remote
    /\ \E rid \in LinkedTo(routes[k].tunnel) : rid # RouteId(routes[k])

(* Tunnel t is kept by the step and based on a route linked to it.         *)
KeptAndRebased(t) ==
    /\ heap'[t].live
    /\ ipkey(heap[t].outer_remote, CIDR_HOST) \in DOMAIN tunnels'
    /\ tunnels'[ipkey(heap[t].outer_remote, CIDR_HOST)] = t
    /\ heap'[t].ifnum = heap[t].ifnum
    /\ heap'[t].outer_remote = heap[t].outer_remote
    /\ \E i \in 1..Len(heap'[t].routes) :
           heap'[t].routes[i][1] = heap'[t].inner_remote

(* C8: when the route expired or moved is the basis of its tunnel and the  *)
(* tunnel has another linked route, the tunnel stays in the index with its *)
(* ifnum and outer_remote, and its inner_remote is afterwards the ipnet of *)
(* a route still linked to it.                                             *)
C8_BasisLossKeepsTunnel ==
    [][\A k \in DOMAIN routes :
           (BasisWithOthers(k) /\ Leaves(k))
               => KeptAndRebased(routes[k].tunnel)]_vars

(* The keys a sequence of keys holds.                                      *)
Range(seq) == {seq[i] : i \in 1..Len(seq)}

(* The sweep has just ended.                                               *)
Swept == pc = "recv" /\ last.op \in {"expire", "destroy"}

(* The first walk of the sweep notes exactly the routes with               *)
(* expires <= now.                                                         *)
ExpireNotes ==
    pc = "sweep" =>
        \A k \in DOMAIN routes : k \in Range(deleting') <=> routes[k].expires <= now

(* destroy of the next noted route: the route leaves the map and the       *)
(* kernel and is unlinked, its tunnel leaves the index when that emptied   *)
(* it, and every other route stays as it is.                               *)
DestroyRemovesOne ==
    (pc = "destroy" /\ pc' \notin {"fatal", "crashed", "unspecified"}) =>
        LET k == Head(deleting)
            t == routes[k].tunnel
        IN  /\ k \notin DOMAIN routes'
            /\ \A kr \in kroutes' :
                   ~(kr.ipnet = routes[k].ipnet /\ kr.mask = routes[k].subnetmask)
            /\ heap'[t].live =>
                   /\ \A i \in 1..Len(heap'[t].routes) :
                          heap'[t].routes[i] # RouteId(routes[k])
                   /\ heap'[t].nref > 0
            /\ ~heap'[t].live => t \notin Indexed'
            /\ \A o \in {e \in DOMAIN routes : routes[e].expires > now} :
                   /\ o \in DOMAIN routes'
                   /\ routes'[o].tunnel = routes[o].tunnel
                   /\ routes'[o].expires = routes[o].expires
                   /\ heap[routes[o].tunnel].live =>
                          /\ heap'[routes[o].tunnel].live
                          /\ Occurrences(heap'[routes[o].tunnel].routes,
                                         RouteId(routes[o]))
                               = Occurrences(heap[routes[o].tunnel].routes,
                                             RouteId(routes[o]))

(* C9: after the sweep run with time now the map has no route with         *)
(* expires <= now; every removed route is gone from the kernel and from    *)
(* its tunnel's list, and its tunnel is collapsed when that emptied it;    *)
(* every route with expires > now stays in the map with the same tunnel,   *)
(* the same link and the same expires.                                     *)
C9_SweepRemovesExactlyExpired ==
    /\ [](Swept => \A k \in DOMAIN routes : routes[k].expires > now)
    /\ [][ExpireNotes /\ DestroyRemovesOne]_vars

(* An accepted response refreshes the route it names, when the map has it. *)
RefreshesExpired ==
    (/\ pc = "responses"
     /\ pc' \notin {"fatal", "crashed", "unspecified"}
     /\ Accepts(last'.arg.response)
     /\ RouteKey(last'.arg.response) \in DOMAIN routes
     /\ routes[RouteKey(last'.arg.response)].expires <= now)
    => /\ RouteKey(last'.arg.response) \in DOMAIN routes'
       /\ routes'[RouteKey(last'.arg.response)].expires = now + TIMEOUT

(* No response of the packet removes a route or takes its expires back.    *)
KeepsRefreshed ==
    (pc = "responses" /\ pc' \notin {"fatal", "crashed", "unspecified"}) =>
        /\ now' = now
        /\ \A k \in DOMAIN routes :
               k \in DOMAIN routes' /\ routes'[k].expires >= routes[k].expires

(* The sweep of the packet spares a route refreshed to now + TIMEOUT.      *)
SparesRefreshed ==
    /\ pc = "sweep" =>
           \A k \in DOMAIN routes :
               routes[k].expires = now + TIMEOUT => k \notin Range(deleting')
    /\ (pc = "destroy" /\ pc' \notin {"fatal", "crashed", "unspecified"}) =>
           /\ DOMAIN routes' = DOMAIN routes \ {Head(deleting)}
           /\ Range(deleting') \subseteq Range(deleting)

(* C10: a route of the map with expires <= now for which the packet holds  *)
(* an accepted advertisement has expires = now + TIMEOUT before the sweep  *)
(* of the packet runs, and that sweep does not remove it.                  *)
C10_RefreshBeforeSweep ==
    [][RefreshesExpired /\ KeepsRefreshed /\ SparesRefreshed]_vars

(* An expired route has just been refreshed by a response of the packet    *)
(* and the sweep is next.                                                  *)
C10_Witness ==
    /\ pc = "sweep"
    /\ last.op = "ripresponse"
    /\ Accepts(last.arg.response)
    /\ last.arg.old >= 0
    /\ last.arg.old <= now
    /\ routes[RouteKey(last.arg.response)].expires = now + TIMEOUT

-----------------------------------------------------------------------------
(* riptide and ripresponse as the claims speak of them.                    *)

(* C11: every call of riptide that receives a datagram runs the expiration *)
(* sweep before it returns: the step that takes a datagram never leads     *)
(* back to the wait for the next one, and the responses of the datagram    *)
(* are followed by the sweep unless the process dies.                      *)
C11_SweepAfterEveryDatagram ==
    [][/\ pc = "recv" => pc' \in {"responses", "sweep"}
       /\ pc = "responses" =>
              pc' \in {"responses", "sweep", "fatal", "crashed", "unspecified"}]_vars

(* The step processes the response last'.arg.response, which passes the    *)
(* checks of ripresponse, and the process survives it.                     *)
ProcessesAccepted ==
    /\ pc = "responses"
    /\ pc' \notin {"fatal", "crashed", "unspecified"}
    /\ Accepts(last'.arg.response)

(* The key of the tunnel index for the next hop of a response.             *)
HopKey(response) == ipkey(response.nexthop, CIDR_HOST)

(* The number of up_tunnel calls a step made.                              *)
UpTunnels(log) == Cardinality({i \in 1..Len(log) : log[i][1] = "uptunnel"})

(* The next hop had no tunnel: the step makes one tunnel for it, from the  *)
(* response and the daemon's addresses, brings it up and leaves it in the  *)
(* index with the advertised route linked.                                 *)
CreatesTunnel ==
    (ProcessesAccepted /\ HopKey(last'.arg.response) \notin DOMAIN tunnels)
    => LET response == Normalize(last'.arg.response)
       IN  /\ DOMAIN tunnels' \ DOMAIN tunnels = {HopKey(response)}
           /\ UpTunnels(last'.log) = 1
           /\ LET T == heap'[tunnels'[HopKey(response)]]
              IN  /\ T.live
                  /\ T.outer_remote = response.nexthop
                  /\ T.inner_remote = response.ipaddr
                  /\ T.outer_local = local_outer_addr
                  /\ T.inner_local = local_inner_addr
                  /\ T.ifnum \in DOMAIN kifs'
                  /\ kifs'[T.ifnum].outer_remote = response.nexthop
                  /\ \E i \in 1..Len(T.routes) :
                         T.routes[i] = <<response.ipaddr, response.subnetmask>>

(* The next hop had a tunnel: the step makes none, and a route it creates  *)
(* is linked to that tunnel, whose nref grows by one.                      *)
LinksToExisting ==
    (ProcessesAccepted /\ HopKey(last'.arg.response) \in DOMAIN tunnels)
    => LET response == Normalize(last'.arg.response)
           t == tunnels[HopKey(response)]
       IN  /\ DOMAIN tunnels' \subseteq DOMAIN tunnels
           /\ UpTunnels(last'.log) = 0
           /\ (RouteKey(response) \notin DOMAIN routes
               /\ RouteKey(response) \in DOMAIN routes')
              => /\ heap'[t].live
                 /\ tunnels'[HopKey(response)] = t
                 /\ routes'[RouteKey(response)].tunnel = t
                 /\ Head(heap'[t].routes)
                      = <<response.ipaddr, response.subnetmask>>
                 /\ heap'[t].nref = heap[t].nref + 1

(* C12: an accepted response whose next hop has no tunnel in the index     *)
(* creates exactly one tunnel (outer_remote the next hop, inner_remote the *)
(* normalized ipaddr, the daemon's local addresses), brings it up and      *)
(* leaves it in the index with the advertised route linked; one whose next *)
(* hop has a tunnel creates none, and a route it creates is linked to the  *)
(* existing tunnel, whose nref grows by one.                               *)
C12_TunnelCreatedOnce == [][CreatesTunnel /\ LinksToExisting]_vars

(* The tunnels a step adds to the index, by key.                           *)
Created == DOMAIN tunnels' \ DOMAIN tunnels

(* C13: a tunnel ripresponse creates receives the lowest interface number  *)
(* not set in the interfaces bitvec, and the kernel interface of that      *)
(* number; the number is the ifnum of no tunnel of the index and no static *)
(* number, so a number freed by collapse is taken again as soon as it is   *)
(* the lowest free one.                                                    *)
C13_LowestFreeIfnum ==
    [][pc = "responses" =>
          \A k \in Created :
              LET n == heap'[tunnels'[k]].ifnum
              IN  /\ ~bitget(interfaces, n)
                  /\ \A j \in 0..(n - 1) : bitget(interfaces, j)
                  /\ \A t \in Indexed : heap[t].ifnum # n
                  /\ ~bitget(staticifs, n)
                  /\ n \in DOMAIN kifs'
                  /\ kifs'[n].outer_remote = k[1]
                  /\ bitget(interfaces', n)]_vars

(* gif0 has been collapsed while gif1 stayed, and the tunnel just created  *)
(* is gif0 again.                                                          *)
C13_Witness ==
    /\ last.op = "ripresponse"
    /\ staticifs = {}
    /\ \E i \in 1..Len(last.log) :
           last.log[i][1] = "uptunnel" /\ last.log[i][2] = 0
    /\ \E t, u \in Indexed : heap[t].ifnum = 0 /\ heap[u].ifnum = 1

(* The route a response names is in the map and linked to a tunnel that is *)
(* not the tunnel of the response's next hop.                              *)
NamesRouteOfOtherTunnel(response) ==
    /\ RouteKey(response) \in DOMAIN routes
    /\ LET route == routes[RouteKey(response)]
       IN  /\ route.tunnel # NULL
           /\ heap[route.tunnel].live
           /\ RouteId(route) \in LinkedTo(route.tunnel)
           /\ \/ HopKey(response) \notin DOMAIN tunnels
              \/ tunnels[HopKey(response)] # route.tunnel

(* nref of the tunnel in block t before the step, 0 for a tunnel the step  *)
(* makes.                                                                  *)
NrefBefore(t) == IF t \in Indexed THEN heap[t].nref ELSE 0

(* The route under key k has moved from tunnel A to tunnel B.              *)
MovedTo(k, A, B) ==
    /\ k \in DOMAIN routes'
    /\ routes'[k].tunnel = B
    /\ heap'[B].live
    /\ routes'[k].gateway = heap'[B].outer_remote
    /\ Occurrences(heap'[B].routes, RouteId(routes[k])) = 1
    /\ \A t \in Slots \ {B} :
           heap'[t].live =>
               Occurrences(heap'[t].routes, RouteId(routes[k])) = 0
    /\ heap'[B].nref = NrefBefore(B) + 1
    /\ heap'[A].live => heap'[A].nref = heap[A].nref - 1
    /\ (heap[A].nref = 1) <=>
           (/\ ~heap'[A].live
            /\ ipkey(heap[A].outer_remote, CIDR_HOST) \notin DOMAIN tunnels')

(* C14: an accepted response for a route of the map that is linked to      *)
(* tunnel A, with a next hop whose tunnel is B # A, leaves the route in    *)
(* B's list and in no other list, with route.tunnel = B and gateway =      *)
(* B.outer_remote; A.nref is one less and B.nref one more, A is collapsed  *)
(* exactly when its nref became 0, and the map still holds the route.      *)
C14_RouteMovesToNewTunnel ==
    [][(ProcessesAccepted /\ NamesRouteOfOtherTunnel(last'.arg.response))
       => /\ HopKey(last'.arg.response) \in DOMAIN tunnels'
          /\ MovedTo(RouteKey(last'.arg.response),
                     routes[RouteKey(last'.arg.response)].tunnel,
                     tunnels'[HopKey(last'.arg.response)])]_vars

(* In a run without discovered routes a route has just moved to the tunnel *)
(* of another peer, and the tunnel it left is still in the index.          *)
C14_Witness ==
    /\ last.op = "ripresponse"
    /\ pc \in {"responses", "sweep"}
    /\ last.arg.old >= 0
    /\ universe = Responses
    /\ Cardinality(Indexed) = 2
    /\ \E i \in 1..Len(last.log) :
           last.log[i][1] \in {"RTM_CHANGE", "tunnel_rebase"}
    /\ \A i \in 1..Len(last.log) : last.log[i][1] # "downtunnel"
    /\ routes[RouteKey(last.arg.response)].gateway = last.arg.response.nexthop

(* The longest route of the map that covers the network of a response,     *)
(* NoEntry when there is none.                                             *)
CoverOf(response) ==
    ipmapnearest(routes, Normalize(response).ipaddr,
                 netmask2cidr(response.subnetmask))

(* The cover of a response is linked to the tunnel of its next hop.        *)
CoverServes(response) ==
    /\ CoverOf(response) # NoEntry
    /\ HopKey(response) \in DOMAIN tunnels
    /\ routes[CoverOf(response)].tunnel = tunnels[HopKey(response)]
    /\ RouteId(routes[CoverOf(response)]) \in LinkedTo(tunnels[HopKey(response)])

(* The step changes neither the routes map (routes, expiry times), nor the *)
(* tunnels and their lists, nor the kernel's routes.                       *)
Dropped ==
    /\ routes' = routes
    /\ tunnels' = tunnels
    /\ heap' = heap
    /\ kroutes' = kroutes

(* The step has created the route of the response: it is in the map, in    *)
(* the kernel and linked to the tunnel of the next hop.                    *)
CreatedAndLinked(response) ==
    LET k == RouteKey(response)
    IN  /\ k \in DOMAIN routes'
        /\ HopKey(response) \in DOMAIN tunnels'
        /\ RouteId(routes'[k]) = <<response.ipaddr, response.subnetmask>>
        /\ routes'[k].tunnel = tunnels'[HopKey(response)]
        /\ Occurrences(heap'[routes'[k].tunnel].routes, RouteId(routes'[k])) = 1
        /\ KRoute(response.ipaddr, response.subnetmask,
                  heap'[routes'[k].tunnel].ifnum) \in kroutes'

(* C15: for an accepted response with no exact entry in the routes map: if *)
(* the longest covering route is linked to the next hop's tunnel the       *)
(* response is dropped and the routes map, tunnel lists, expiry times and  *)
(* kernel routes are unchanged; otherwise a new route is created, inserted *)
(* in the map, added to the kernel and linked to the next hop's tunnel.    *)
C15_CoverDropsOrRouteCreated ==
    [][(ProcessesAccepted /\ RouteKey(last'.arg.response) \notin DOMAIN routes)
       => IF CoverServes(last'.arg.response) THEN Dropped
          ELSE CreatedAndLinked(Normalize(last'.arg.response))]_vars

(* The entries of the acceptance map that cover the network of a response  *)
(* with a length no longer than its own.                                   *)
PolicyEntries(response) ==
    {e \in DOMAIN acceptable :
        Covers(e, <<Normalize(response).ipaddr,
                    netmask2cidr(response.subnetmask)>>)}

(* The effective policy for a response: the datum of the longest of these  *)
(* entries, "none" when nothing covers.                                    *)
EffectivePolicy(response) ==
    IF PolicyEntries(response) = {} THEN "none"
    ELSE acceptable[CHOOSE e \in PolicyEntries(response) :
                        \A o \in PolicyEntries(response) : o[2] <= e[2]]

(* The step changes nothing of the graph, the bitvec and the kernel, and   *)
(* makes no kernel call.                                                   *)
Untouched ==
    /\ tunnels' = tunnels
    /\ heap' = heap
    /\ routes' = routes
    /\ interfaces' = interfaces
    /\ kifs' = kifs
    /\ kroutes' = kroutes
    /\ last'.log = <<>>
    /\ pc' \notin {"fatal", "crashed", "unspecified"}

(* C16: a response whose effective policy is not ACCEPT (IGNORE, or no     *)
(* covering entry) is dropped before any tunnel or route is created:       *)
(* tunnel index, routes map, bitvec and kernel state are unchanged.        *)
C16_NotAcceptedIsDropped ==
    [][(/\ pc = "responses"
        /\ netmask2cidr(last'.arg.response.subnetmask) >= 0
        /\ EffectivePolicy(last'.arg.response) # ACCEPT)
       => Untouched]_vars

(* A response for a network under an IGNORE entry, from a peer without a   *)
(* tunnel, has just been processed while another tunnel is up.             *)
C16_Witness ==
    /\ last.op = "ripresponse"
    /\ EffectivePolicy(last.arg.response) = IGNORE
    /\ last.arg.response.nexthop # local_outer_addr
    /\ Indexed # {}
    /\ HopKey(last.arg.response) \notin DOMAIN tunnels

(* The next hop of a response is the daemon's own outer address.           *)
ToSelf(response) == response.nexthop = local_outer_addr

(* The next hop of a response lies inside the subnet it advertises.        *)
GatewayInside(response) ==
    AddrAnd(response.nexthop, response.subnetmask)
        = AddrAnd(response.ipaddr, response.subnetmask)

(* C17: a response whose next hop is the daemon's local outer address, or  *)
(* lies inside the advertised subnet, is dropped with no change to the     *)
(* tunnel index, the routes map, the bitvec, any route's expires or the    *)
(* kernel, and processing goes on with the next response of the datagram.  *)
C17_SelfOrInsideIsDropped ==
    [][(/\ pc = "responses"
        /\ ToSelf(last'.arg.response) \/ GatewayInside(last'.arg.response))
       => /\ Untouched
          /\ todo' = todo - 1
          /\ pc' = IF todo = 1 THEN "sweep" ELSE "responses"]_vars

(* A response for an accepted network with its gateway inside the network  *)
(* has just been dropped and another response of the datagram is next.     *)
C17_Witness ==
    /\ last.op = "ripresponse"
    /\ pc = "responses"
    /\ GatewayInside(last.arg.response)
    /\ ~ToSelf(last.arg.response)
    /\ EffectivePolicy(last.arg.response) = ACCEPT
    /\ last.log = <<>>

(* C18: a response whose subnetmask is not a contiguous prefix mask is     *)
(* rejected by ripresponse: no tunnel or route is created or changed and   *)
(* no kernel call is made for it.                                          *)
C18_BadMaskIsRejected ==
    [][(/\ pc = "responses"
        /\ netmask2cidr(last'.arg.response.subnetmask) = -1)
       => Untouched]_vars

(* The calls of the step, by position in its log, that bring a tunnel up.  *)
UpCalls == {i \in 1..Len(last'.log) : last'.log[i][1] = "uptunnel"}

(* The calls of the step that add or change the route of a response in the *)
(* kernel.                                                                 *)
RouteCalls(response) ==
    {i \in 1..Len(last'.log) :
        /\ last'.log[i][1] \in {"RTM_ADD", "RTM_CHANGE"}
        /\ last'.log[i][2] = response.ipaddr
        /\ last'.log[i][3] = response.subnetmask}

(* When up_tunnel is called the tunnel is not in the index.                *)
UpBeforeIndex ==
    \A i \in UpCalls : HopKey(last'.arg.response) \notin last'.at[i].tunnels

(* When up_tunnel is called the tunnel's ifnum is not set in the bitvec.   *)
UpBeforeIfnum ==
    \A i \in UpCalls : ~bitget(last'.at[i].interfaces, last'.log[i][2])

(* When add_route or change_route is called for a route the map did not    *)
(* hold, the map does not hold it yet.                                     *)
RouteCallBeforeInsert ==
    \A i \in RouteCalls(Normalize(last'.arg.response)) :
        RouteKey(last'.arg.response) \notin DOMAIN routes
            => RouteKey(last'.arg.response) \notin last'.at[i].routes

(* When add_route or change_route is called the route is in the lists it   *)
(* was in before the response: not yet unlinked, not yet linked.           *)
RouteCallBeforeLinks ==
    LET response == Normalize(last'.arg.response)
        rid == <<response.ipaddr, response.subnetmask>>
    IN  \A i \in RouteCalls(response) :
            \A t \in Slots :
                Occurrences(last'.at[i].lists[t], rid)
                    = IF heap[t].live THEN Occurrences(heap[t].routes, rid)
                      ELSE 0

(* C19: within ripresponse kernel mutations come before graph mutations:   *)
(* when up_tunnel is invoked the new tunnel is not yet in the index and    *)
(* its ifnum not yet recorded, and when add_route or change_route is       *)
(* invoked the route has not yet been inserted in the routes map, unlinked *)
(* from its old tunnel or linked to the new one.                           *)
C19_KernelBeforeGraph ==
    [][pc = "responses" =>
          /\ UpBeforeIndex
          /\ UpBeforeIfnum
          /\ RouteCallBeforeInsert
          /\ RouteCallBeforeLinks]_vars

(* The calls that make, remove or readdress a tunnel interface.            *)
InterfaceCalls == {"uptunnel", "downtunnel", "SIOCAIFADDR", "SIOCDIFADDR"}

(* Static interface n is as -s left it: its bit is set, no tunnel of the   *)
(* index has its number, and the last step made no interface call for it.  *)
StaticKept(n) ==
    /\ bitget(interfaces, n)
    /\ \A t \in Indexed : heap[t].ifnum # n
    /\ \A i \in 1..Len(last.log) :
           last.log[i][1] \in InterfaceCalls => last.log[i][2] # n

(* The kernel's interface of a static number stays as it is.               *)
StaticInterfaceStays ==
    \A n \in staticifs \cap DOMAIN kifs :
        n \in DOMAIN kifs' /\ kifs'[n] = kifs[n]

(* C20: an interface number given with -s is never touched: in every       *)
(* reachable state its bit is set in interfaces and no tunnel of the index *)
(* has that ifnum, and no up_tunnel, down_tunnel or inner-address          *)
(* reconfiguration is ever issued for that interface.                      *)
C20_StaticNeverTouched ==
    /\ [](\A n \in staticifs : StaticKept(n))
    /\ [][StaticInterfaceStays]_vars

(* With -s 0 -s 1 a tunnel was made past the static numbers and has just   *)
(* been collapsed by the sweep; the administrator's gif1 is still there.   *)
C20_Witness ==
    /\ staticifs = {0, 1}
    /\ last.op = "destroy"
    /\ \E i \in 1..Len(last.log) :
           last.log[i][1] = "downtunnel" /\ last.log[i][2] = 2
    /\ 1 \in DOMAIN kifs
    /\ interfaces = {0, 1}

-----------------------------------------------------------------------------
(* Route discovery.                                                        *)

(* The route the dump message at hand is handed to learn_route_callback    *)
(* as, NoEntry when discoverroute keeps it to itself.                      *)
Discovered == discoverroute(gifinterfaces, Head(drts))

(* The managed tunnel the route at hand is found to go through.            *)
Matched ==
    IF Discovered.isaddr THEN tunnelfindbydest(World, Discovered.destaddr)
    ELSE tunnelfindbyname(World, Discovered.destif)

(* The acceptance policy says ACCEPT for the route at hand.                *)
PolicyAccepts ==
    Accepted(Discovered.ipnet, netmask2cidr(Discovered.mask))

(* The step leaves tunnels, routes and the interface numbers as they are.  *)
GraphUnchanged == UNCHANGED <<tunnels, heap, routes, interfaces>>

(* The four outcomes of one discovered route.                              *)
RouteOutcome ==
    /\ (Matched = NULL /\ ~PolicyAccepts) =>
           GraphUnchanged /\ pc' \notin {"fatal", "crashed", "unspecified"}
    /\ (Matched = NULL /\ PolicyAccepts) => pc' = "fatal"
    /\ (Matched # NULL /\ ~PolicyAccepts) => pc' = "fatal"
    /\ routes' # routes => Matched # NULL /\ PolicyAccepts

(* C21: for every IPv4 route of the dump, no tunnel and no ACCEPT leaves   *)
(* the route ignored and the state as it was, no tunnel and ACCEPT is      *)
(* fatal, a tunnel and no ACCEPT is fatal, and a Route is made only with a *)
(* tunnel and ACCEPT.                                                      *)
C21_DiscoveredRouteOutcomes ==
    [][(pc = "discoverrts" /\ Discovered # NoEntry) => RouteOutcome]_vars

(* The key the route at hand goes into the routes map under.               *)
DiscoveredKey == ipkey(Discovered.ipnet, netmask2cidr(Discovered.mask))

(* The map already holds a Route with the ipnet and cidr of the route at   *)
(* hand.                                                                   *)
AlreadyDiscovered ==
    /\ netmask2cidr(Discovered.mask) # -1
    /\ DiscoveredKey \in DOMAIN routes
    /\ routes[DiscoveredKey].ipnet = Discovered.ipnet

(* The duplicate is dropped: the first Route stays as it was.              *)
DuplicateDiscarded ==
    LET first == routes[DiscoveredKey]
    IN  /\ pc' \notin {"fatal", "crashed", "unspecified"}
        /\ GraphUnchanged
        /\ Occurrences(heap'[first.tunnel].routes, RouteId(first)) = 1
        /\ heap'[first.tunnel].nref = heap[first.tunnel].nref

(* C22: a second route of the dump with the ipnet and cidr of a Route      *)
(* already discovered is fatal when it goes through another tunnel (or     *)
(* none); when it goes through the same tunnel it is discarded, the first  *)
(* Route staying in the map, linked once, nref as it was.                  *)
C22_DuplicateRouteAtDiscovery ==
    [][(pc = "discoverrts" /\ Discovered # NoEntry /\ AlreadyDiscovered) =>
          IF Matched # routes[DiscoveredKey].tunnel THEN pc' = "fatal"
          ELSE DuplicateDiscarded]_vars

(* The dump of Doubled has been read: its second route for 10.9.0.0/24     *)
(* through gif0 was discarded and the tunnel holds the two routes of       *)
(* before.                                                                 *)
C22_Witness ==
    /\ pc = "learnsys"
    /\ last.op = "learn_route"
    /\ last.arg = <<NetA, Mask24>>
    /\ Cardinality(kroutes) = 2
    /\ \E t \in Indexed :
           /\ heap[t].inner_remote = NetA
           /\ heap[t].nref = 2
           /\ Occurrences(heap[t].routes, <<NetA, Mask24>>) = 1

(* The step makes a Route of the route at hand and links it into tunnel t. *)
LinkedInto(t) ==
    /\ DiscoveredKey \notin DOMAIN routes
    /\ DiscoveredKey \in DOMAIN routes'
    /\ routes'[DiscoveredKey].tunnel = t
    /\ heap'[t].live
    /\ Occurrences(heap'[t].routes, RouteId(routes'[DiscoveredKey])) = 1

(* The route at hand has an IPv4 address as gateway and a Route is made of *)
(* it.                                                                     *)
LearnsByAddress ==
    /\ pc = "discoverrts"
    /\ Discovered # NoEntry
    /\ Discovered.isaddr
    /\ pc' \notin {"fatal", "crashed", "unspecified"}
    /\ routes' # routes

(* C23 as stated: a discovered route whose gateway is an IPv4 address is   *)
(* linked into the tunnel whose outer_remote is that address.              *)
C23_AttributedByOuterRemote ==
    [][LearnsByAddress =>
          \E t \in Slots :
              /\ LinkedInto(t)
              /\ heap'[t].outer_remote = Discovered.destaddr]_vars

(* C23 as the code has it: a discovered route whose gateway is an IPv4     *)
(* address is linked into the tunnel whose inner_remote is that address.   *)
C23_AttributedByInnerRemote ==
    [][LearnsByAddress =>
          \E t \in Slots :
              /\ LinkedInto(t)
              /\ t \in {tunnels'[k] : k \in DOMAIN tunnels'}
              /\ heap'[t].inner_remote = Discovered.destaddr]_vars

(* 10.9.1.0/24 via the address 10.9.1.0 has been read from the dump of     *)
(* Pair and hangs on gif1, whose inner_remote is 10.9.1.0 and whose        *)
(* outer_remote is 203.0.113.7.                                            *)
C23_Witness ==
    /\ last.op = "learn_route"
    /\ last.arg = <<NetB, Mask24>>
    /\ pc = "learnsys"
    /\ \E t \in Indexed :
           /\ heap[t].inner_remote = NetB
           /\ heap[t].outer_remote = Peer2
           /\ heap[t].ifnum = 1
           /\ <<NetB, Mask24>> \in LinkedTo(t)
           /\ routes[ipkey(NetB, 24)].tunnel = t

-----------------------------------------------------------------------------
(* The redundancy collapse of start-up.                                    *)

(* The key of the host route to the inner_remote of tunnel t.              *)
BasisKey(t) == ipkey(heap[t].inner_remote, CIDR_HOST)

(* A broader route through tunnel t covers the host route to its           *)
(* inner_remote.                                                           *)
BasisCovered(t) ==
    \E k \in DOMAIN routes :
        /\ k # BasisKey(t)
        /\ Covers(k, BasisKey(t))
        /\ routes[k].tunnel = t

(* C24: when discovery and fix_overlaps are done, the host route to a      *)
(* tunnel's inner_remote that a broader route of the same tunnel covers is *)
(* no Route of its own: it is neither in the tunnel's list nor in the      *)
(* routes map (and so cannot be expired, refreshed or moved later).        *)
C24_CoveredBasisIsNoRoute ==
    pc = "cleanup" =>
        \A t \in Indexed :
            BasisCovered(t) =>
                /\ <<heap[t].inner_remote, hostmask>> \notin LinkedTo(t)
                /\ BasisKey(t) \notin DOMAIN routes

-----------------------------------------------------------------------------
(* The IPMap laws.                                                         *)

(* The entries of root whose whole prefix and length are those of the      *)
(* query.                                                                  *)
ExactEntries(key, keylen) ==
    {e \in DOMAIN root :
        e[2] = keylen /\ e[1] = AddrAnd(key, cidr2mask(keylen))}

(* A stored entry is a proper prefix of the query, or the query is a       *)
(* proper prefix of a stored entry.                                        *)
NearMiss(key, keylen) ==
    \E e \in DOMAIN root :
        /\ e[2] # keylen
        /\ AddrAnd(key, cidr2mask(IF e[2] < keylen THEN e[2] ELSE keylen))
             = AddrAnd(e[1], cidr2mask(IF e[2] < keylen THEN e[2]
                                       ELSE keylen))

(* ipmapfind gave the datum of the entry that equals the query, and        *)
(* nothing when there is no such entry.                                    *)
FindIsExact ==
    answer.op = "ipmapfind" =>
        LET exact == ExactEntries(answer.key, answer.keylen)
        IN  IF exact = {} THEN answer.result = <<>>
            ELSE \E e \in exact : answer.result = <<root[e]>>

(* On the map of setup ipmapfind gave what main expects.                   *)
FindAsExpected ==
    (answer.op = "ipmapfind" /\ root = setup) =>
        \A i \in 1..Len(Expected) :
            (answer.key = Expected[i][1] /\ answer.keylen = Expected[i][2])
                => answer.result = Expected[i][3]

(* C25: ipmapfind is an exact-match lookup: it returns a datum only for    *)
(* the entry whose whole prefix and length equal key and keylen of the     *)
(* query; a query that is shorter than an entry on its path, longer than   *)
(* one, or off every path gets nothing, also when a stored entry is a      *)
(* prefix of it.                                                           *)
C25_FindIsExactMatch == FindIsExact /\ FindAsExpected

(* main asked for 44.130.130.0/27 on the map of setup: 44.130.130.0/24 is  *)
(* stored and is a prefix of the query, and ipmapfind gave nothing.        *)
C25_Witness ==
    /\ root = setup
    /\ answer.op = "ipmapfind"
    /\ answer.key = <<44, 130, 130, 0>>
    /\ answer.keylen = 27
    /\ NearMiss(answer.key, answer.keylen)
    /\ ipkey(<<44, 130, 130, 0>>, 24) \in DOMAIN root
    /\ answer.result = <<>>

(* The prefix an inserted entry stands for.                                *)
PrefixOf(entry) == <<AddrAnd(entry[1], cidr2mask(entry[2])), entry[2]>>

(* The inserts whose (key, keylen) no earlier insert had: the ones that    *)
(* put their datum into the map.                                           *)
Distinct ==
    {i \in 1..Len(inserted) :
        \A j \in 1..(i - 1) : PrefixOf(inserted[j]) # PrefixOf(inserted[i])}

(* The distinct inserts that are a prefix of key and not longer than       *)
(* keylen.                                                                 *)
PrefixesOf(key, keylen) ==
    {i \in Distinct :
        /\ inserted[i][2] <= keylen
        /\ AddrAnd(key, cidr2mask(inserted[i][2])) = PrefixOf(inserted[i])[1]}

(* find gives every distinct insert its own datum back.                    *)
FindReturnsInserted ==
    \A i \in Distinct :
        Datum(root, ipmapfind(root, inserted[i][1], inserted[i][2]))
            = <<inserted[i][3]>>

(* nearest gave the datum of the longest inserted prefix of the query, or  *)
(* nothing when no inserted prefix covers it.                              *)
NearestReturnsLongest ==
    answer.op = "ipmapnearest" =>
        LET covering == PrefixesOf(answer.key, answer.keylen)
        IN  IF covering = {} THEN answer.result = <<>>
            ELSE \E i \in covering :
                     /\ \A j \in covering : inserted[j][2] <= inserted[i][2]
                     /\ answer.result = <<inserted[i][3]>>

(* C26: in a map built by inserts with distinct (key, keylen), find(k, l)  *)
(* returns the datum inserted for (k, l), and nearest(k, l) the datum of   *)
(* the longest stored prefix of k that is not longer than l, or nothing    *)
(* when no stored prefix covers k.                                         *)
C26_FindAndNearest == FindReturnsInserted /\ NearestReturnsLongest

(* nearest(44.130.24.1/32) on the entries of setup and one more: b (/16)   *)
(* and c (/24) both cover the query, c is the longer and is returned.      *)
C26_Witness ==
    /\ Made = 1
    /\ Cardinality(Distinct) = 6
    /\ answer.op = "ipmapnearest"
    /\ answer.key = <<44, 130, 24, 1>>
    /\ answer.keylen = 32
    /\ Cardinality(PrefixesOf(answer.key, answer.keylen)) = 2
    /\ answer.result = <<"c">>

(* The walk visited every entry of root once.                              *)
VisitsEveryEntry ==
    /\ Len(answer.result) = Cardinality(DOMAIN root)
    /\ \A e \in DOMAIN root : \E i \in 1..Len(answer.result) :
           answer.result[i] = e

(* The walk visited a covering prefix before every prefix it covers.       *)
ParentsFirst ==
    \A i, j \in 1..Len(answer.result) :
        (/\ i # j
         /\ answer.result[i][2] <= answer.result[j][2]
         /\ AddrAnd(answer.result[j][1], cidr2mask(answer.result[i][2]))
              = answer.result[i][1])
            => i < j

(* C27: ipmapdotopdown visits every entry that has a datum, and visits     *)
(* (k1, l1) before (k2, l2) whenever l1 <= l2 and k2 & mask(l1) = k1.      *)
C27_TopDownOrder ==
    answer.op = "ipmapdotopdown" => VisitsEveryEntry /\ ParentsFirst

(* The walk of the trie of setup with one more entry, 44.130.24.1/8, which *)
(* covers all the others: it went 44/8 first, then a, b, c, e, d: b        *)
(* (44.130.0.0/16) before c and d below it, c before e below c.            *)
C27_Witness ==
    /\ Made = 1
    /\ answer.op = "ipmapdotopdown"
    /\ answer.result =
           <<ipkey(<<44, 0, 0, 0>>, 8), ipkey(<<44, 0, 0, 1>>, 32),
             ipkey(<<44, 130, 0, 0>>, 16), ipkey(<<44, 130, 24, 0>>, 24),
             ipkey(<<44, 130, 24, 25>>, 32), ipkey(<<44, 130, 130, 0>>, 24)>>

(* No route left in the list of tunnel t is covered by another route left  *)
(* in it.                                                                  *)
NoCoveredRouteLeft(t) ==
    \A r1, r2 \in LinkedTo(t) :
        r1 # r2 => ~Covers(KeyOf(r1), KeyOf(r2))

(* The routes of tunnel t that fix_overlaps took off its list.             *)
UnlinkedFrom(t) ==
    {k \in DOMAIN routes :
        routes[k].tunnel = t /\ RouteId(routes[k]) \notin LinkedTo(t)}

(* Every route taken off the list of tunnel t is covered by a route that   *)
(* stayed in it.                                                           *)
UnlinkedAreCovered(t) ==
    \A k \in UnlinkedFrom(t) :
        \E r \in LinkedTo(t) : KeyOf(r) # k /\ Covers(KeyOf(r), k)

(* C28: whatever order the top-down walk takes, fix_overlaps unlinks       *)
(* exactly the routes that another, broader route of the same tunnel       *)
(* covers: no route left in a list is covered by another one left in it,   *)
(* and every unlinked route is covered by one that stays linked.           *)
C28_ExactlyCoveredUnlinked ==
    pc = "cleanup" =>
        \A t \in Indexed : NoCoveredRouteLeft(t) /\ UnlinkedAreCovered(t)

-----------------------------------------------------------------------------
(* Ownership of the Tunnel structures.                                     *)

(* The tunnel a Route refers back to is in the tunnel index and has not    *)
(* been freed.                                                             *)
BackReferenceOwned(k) ==
    /\ routes[k].tunnel \in Indexed
    /\ heap[routes[k].tunnel].live

(* C29: between operations every route of the routes map with a tunnel    *)
(* back-reference refers to a tunnel that is still in the tunnel index,    *)
(* not to one collapse has destroyed (so that rmroute, chroute,            *)
(* unlinkroute and collapse never get a tunnel that is torn down already). *)
C29_BackReferenceInIndex ==
    Settled =>
        \A k \in DOMAIN routes :
            routes[k].tunnel # NULL => BackReferenceOwned(k)

-----------------------------------------------------------------------------
(* The early return of the rebase protocol.                                *)

(* The calls of tunnel_rebase in the last step that returned right after   *)
(* deleting the inner addresses: the tunnel had one linked route (nref 1). *)
EarlyReturns ==
    {i \in 1..Len(last.log) :
        /\ last.log[i][1] = "tunnel_rebase"
        /\ Len(last.at[i].lists[last.log[i][2]]) = 1}

(* The route handed to the i-th kernel call of the last step was the only  *)
(* route linked to the tunnel, and the tunnel is gone after the step.      *)
LastRouteAndCollapsed(i) ==
    /\ last.at[i].lists[last.log[i][2]]
         = <<<<last.log[i][3], last.log[i][4]>>>>
    /\ last.log[i][2] \notin Indexed

(* Every tunnel of the index has its inner addresses in the kernel.        *)
AllConfigured ==
    \A t \in Indexed :
        heap[t].live =>
            /\ heap[t].ifnum \in DOMAIN kifs
            /\ kifs[heap[t].ifnum].configured

(* C30: whenever tunnel_rebase returns early on nref = 1, the route being  *)
(* removed or moved is the only route linked to the tunnel and the         *)
(* caller's collapse destroys the tunnel; so after every completed         *)
(* ripresponse and every completed sweep each tunnel of the index has its  *)
(* inner addresses configured in the kernel.                               *)
C30_EarlyReturnMeansCollapse ==
    /\ Alive => \A i \in EarlyReturns : LastRouteAndCollapsed(i)
    /\ pc \in {"responses", "sweep", "recv"} => AllConfigured

-----------------------------------------------------------------------------
(* The tunnel interfaces of the kernel.                                    *)

(* The gif interfaces of the kernel that are the daemon's: made by         *)
(* uptunnel or taken over at discovery, not the administrator's (-s).      *)
ManagedInterfaces == DOMAIN kifs \ staticifs

(* The interface numbers of the tunnels of the index.                      *)
IndexedInterfaces == {heap[t].ifnum : t \in {s \in Indexed : heap[s].live}}

(* How often the step called downtunnel for interface n.                   *)
DownCalls(log, n) ==
    Cardinality({i \in 1..Len(log) :
                    log[i][1] = "downtunnel" /\ log[i][2] = n})

(* The tunnels the step takes out of the index.                            *)
LeavingIndex ==
    {tunnels[k] : k \in {e \in DOMAIN tunnels :
                            e \notin DOMAIN tunnels'
                            \/ tunnels'[e] # tunnels[e]}}

(* downtunnel is called once for each tunnel that leaves the index, and    *)
(* for no tunnel that has a route linked at the moment of the call.        *)
DownOncePerLeaver ==
    /\ \A t \in LeavingIndex : DownCalls(last'.log, heap[t].ifnum) = 1
    /\ \A i \in 1..Len(last'.log) :
           last'.log[i][1] = "downtunnel" =>
               /\ \E t \in LeavingIndex : heap[t].ifnum = last'.log[i][2]
               /\ \A t \in LeavingIndex :
                      heap[t].ifnum = last'.log[i][2] =>
                          last'.at[i].lists[t] = <<>>

(* C31: between operations after start-up the tunnel interfaces of the     *)
(* kernel that the daemon made or adopted are those of the tunnels of the  *)
(* index; downtunnel is called exactly once for each tunnel that leaves    *)
(* the index and never for a tunnel that still has linked routes.          *)
C31_NoInterfaceLeaked ==
    /\ [](Idling => ManagedInterfaces = IndexedInterfaces)
    /\ [][pc' \notin {"fatal", "crashed", "unspecified"} => DownOncePerLeaver]_vars

(* The sweep has just taken the last route of one tunnel: downtunnel was   *)
(* called once for its interface, which is gone from the kernel, and the   *)
(* interface of the other tunnel is still there.                           *)
C31_Witness ==
    /\ Idling
    /\ last.op = "destroy"
    /\ \E n \in 0..MaxTunnels :
           /\ DownCalls(last.log, n) = 1
           /\ n \notin DOMAIN kifs
    /\ ManagedInterfaces # {}
    /\ ManagedInterfaces = IndexedInterfaces

-----------------------------------------------------------------------------
(* A basis route that changes tunnel.                                      *)

(* The response names a route that is linked to another tunnel than the    *)
(* one of its next hop and is the basis of that tunnel.                    *)
MovesBasis(response) ==
    /\ NamesRouteOfOtherTunnel(response)
    /\ routes[RouteKey(response)].ipnet
         = heap[routes[RouteKey(response)].tunnel].inner_remote

(* After the step the kernel routes the network of route r through the     *)
(* interface of tunnel B and not through interface n.                      *)
KernelRoutesThrough(r, B, n) ==
    /\ KRoute(r.ipnet, r.subnetmask, heap'[B].ifnum) \in kroutes'
    /\ KRoute(r.ipnet, r.subnetmask, n) \notin kroutes'

(* After the step every route linked to tunnel A is in the kernel, through *)
(* the interface of A.                                                     *)
OthersStillReachable(A) ==
    heap'[A].live =>
        \A i \in 1..Len(heap'[A].routes) :
            KRoute(heap'[A].routes[i][1], heap'[A].routes[i][2],
                   heap'[A].ifnum) \in kroutes'

(* C32: when an accepted response moves the basis route of tunnel A to     *)
(* another tunnel B, chroute rebases A and then adds toward B: after       *)
(* ripresponse the kernel routes the network through B's interface and not *)
(* through A's, and every other route still linked to A is still routed    *)
(* through A.                                                              *)
C32_BasisMoveKeepsOthers ==
    [][(ProcessesAccepted /\ MovesBasis(last'.arg.response)
        /\ pc' \notin {"fatal", "crashed", "unspecified"})
       => LET route == routes[RouteKey(last'.arg.response)]
          IN  /\ KernelRoutesThrough(route,
                     tunnels'[HopKey(last'.arg.response)],
                     heap[route.tunnel].ifnum)
              /\ OthersStillReachable(route.tunnel)]_vars

-----------------------------------------------------------------------------
(* Routes whose gateway carries only an interface index.                   *)

(* The route message discoverrts is about to examine has a link-layer      *)
(* gateway without a name, and its index is the one of an interface that   *)
(* discoverifs reported as a tunnel.                                       *)
IndexOnlyOfTunnel ==
    /\ pc = "discoverrts"
    /\ Head(drts).gw = "link"
    /\ Head(drts).name = -1
    /\ tunnelfindbyname(World, Head(drts).ifnum) # NULL

(* What discoverroute reports for the same message when the index has been *)
(* resolved to the name of its interface.                                  *)
ResolvedByIndex ==
    [ipnet |-> Head(drts).net,
     mask |-> IF Head(drts).host THEN hostmask ELSE Head(drts).netmask,
     isaddr |-> FALSE, destaddr |-> ZeroAddr, destif |-> Head(drts).ifnum]

(* C33: during route discovery a kernel route whose link-layer gateway     *)
(* carries only an interface index is resolved to the tunnel interface     *)
(* recorded with that index and attributed to the tunnel of that name: the *)
(* step leaves the graph that learn_route_callback builds for the resolved *)
(* route, the route is not skipped.                                        *)
C33_IndexOnlyGatewayResolved ==
    [][IndexOnlyOfTunnel
       => LET W == learn_route_callback(World, ResolvedByIndex)
          IN  W.st = "ok" => /\ routes' = W.routes
                             /\ heap' = W.heap
                             /\ tunnels' = W.tunnels]_vars

=============================================================================
